---- MODULE Spec2Model ----
(***************************************************************************)
(* A model of the Delphi Beliefs server (src/server.js): the upstream      *)
(* client, the live market detector with its ghost set, the prediction     *)
(* engine and the four single-slot TTL caches in front of the HTTP         *)
(* handlers.  A request is a cooperative task: one action is the code      *)
(* that runs between two suspension points (awaits) of one handler.        *)
(***************************************************************************)
EXTENDS Integers, Sequences, FiniteSets, TLC

\* ------------------------------------------------------------------------
\* Bounds of the model
\* ------------------------------------------------------------------------
\* number of calls of the upstream client followed step by step
MaxCalls == 3
\* total number of HTTP requests the clients send in one behaviour
MaxRequests == 2
\* the upstream lists at most MaxItems ongoing markets
MaxItems == 2
\* the upstream state changes at most MaxEpochs times
MaxEpochs == 1
\* upstream markets hold at most MaxModels model indices with any data
MaxModels == 2

\* request slots (requests in flight at the same time)
Slots == {1, 2}
\* the instants (ms) at which the wall clock is observed: each TTL is met
\* exactly (5000, 8000, 30000, 60000) and undercut (3000, 5000, 22000, 30000)
Instants == {0, 5000, 8000, 30000, 60000}
\* the instants observed when only the live-market slot is exercised
DetectInstants == {0, 30000, 60000}

\* ------------------------------------------------------------------------
\* Program constants (server.js:11-20, 170)
\* ------------------------------------------------------------------------
CACHE_DURATION_MS == 5000
HUMAN_BELIEF_CACHE_MS == 8000
HUMAN_BELIEF_TIMEOUT_MS == 9000
HISTORICAL_CACHE_MS == 30000
LIVE_MARKET_CACHE_MS == 60000
\* discoverEntryMap probes modelIdx 0 .. NumProbes-1
NumProbes == 10

\* ------------------------------------------------------------------------
\* Optional values: null is the empty sequence, a value v is <<v>>
\* ------------------------------------------------------------------------
Null == <<>>
Some(v) == <<v>>
IsNull(o) == o = <<>>
Val(o) == o[1]

\* entry maps are functions from model index to model name
EmptyMap == [i \in {} |-> ""]
Keys(m) == DOMAIN m
MapOfSeq(s) == [i \in 0..(Len(s) - 1) |-> s[i + 1]]

\* ------------------------------------------------------------------------
\* MARKET_CONFIG and MARKET_ORDER
\* ------------------------------------------------------------------------
MARKET_CONFIG_IDS == {"0", "1", "3", "4"}

MARKET_CONFIG ==
  [id \in MARKET_CONFIG_IDS |->
    CASE id = "0" ->
           [displayNum |-> 1,
            name |-> "Gensyn Middleweight General Reasoning Benchmark",
            confirmedWinner |-> "Qwen/Qwen3-30B-A3B-Instruct-2507",
            entryMap |-> MapOfSeq(<<"Qwen/Qwen3-30B-A3B-Instruct-2507",
                                    "zai-org/glm-4-32b-0414",
                                    "tiiuae/falcon-h1-34b-instruct",
                                    "google/gemma-3-27b-it",
                                    "openai/gpt-oss-20b">>)]
      [] id = "1" ->
           [displayNum |-> 2,
            name |-> "Gensyn Middleweight General Reasoning Benchmark (II)",
            confirmedWinner |-> "Qwen/Qwen3-30B-A3B-Instruct-2507",
            entryMap |-> MapOfSeq(<<"Qwen/Qwen3-30B-A3B-Instruct-2507",
                                    "openai/gpt-oss-20b",
                                    "google/gemma-3-27b-it",
                                    "zai-org/glm-4-32b-0414",
                                    "tiiuae/falcon-h1-34b-instruct">>)]
      [] id = "3" ->
           [displayNum |-> 3,
            name |-> "Gensyn Lightweight General Reasoning Benchmark",
            confirmedWinner |-> "Qwen/Qwen3-8B",
            entryMap |-> MapOfSeq(<<"Qwen/Qwen3-8B",
                                    "mistralai/ministral-3-8b-instruct-2512",
                                    "ibm-granite/granite-4.0-h-tiny",
                                    "allenai/olmo-3-7b-instruct",
                                    "meta-llama/llama-3.1-8b-instruct">>)]
      [] id = "4" ->
           [displayNum |-> 4,
            name |-> "Gensyn Commercial-Fast Reasoning Benchmark",
            confirmedWinner |-> "grok-4.1-fast-reasoning",
            entryMap |-> MapOfSeq(<<"claude-haiku-4-5",
                                    "gemini-3-flash-preview",
                                    "gpt-5-mini",
                                    "grok-4.1-fast-reasoning">>)]]

MARKET_ORDER == <<"0", "1", "3", "4">>

\* the seed of GHOST_MARKET_IDS
GhostSeed == {"2"}

\* ------------------------------------------------------------------------
\* The upstream: raw HTTP outcomes and JSON documents
\* ------------------------------------------------------------------------
\* JSON documents, tagged by shape
JNull == [t |-> "null"]
JOther == [t |-> "other"]
JItems(items) == [t |-> "items", items |-> items]
JEvals(evals) == [t |-> "evals", evals |-> evals]
JChart(shape, points) == [t |-> "chart", shape |-> shape, data_points |-> points]

\* a body text: either the serialisation of a JSON document or not JSON at all
TextOf(doc) == [syntax |-> "json", doc |-> doc]
Garbage == [syntax |-> "garbage", doc |-> JNull]
\* String(e) of a caught error
ErrorText == [syntax |-> "error", doc |-> JNull]

\* the outcome of one HTTP exchange: the transport rejects, or a response
\* with a status and a body arrives
Reject == [kind |-> "reject", ok |-> FALSE, status |-> 0, text |-> ErrorText]
\* the exchange was aborted through its AbortController
Abort == [kind |-> "abort", ok |-> FALSE, status |-> 0, text |-> ErrorText]
Http(status, text) ==
  [kind |-> "http", ok |-> (status >= 200 /\ status < 300), status |-> status,
   text |-> text]

\* JSON.parse: throws on a body that is not JSON
ParseThrows(text) == text.syntax # "json"
ParseValue(text) == text.doc

\* fetchText(url): rejects when the transport rejects
fetchText(raw) ==
  IF raw.kind # "http"
  THEN [thrown |-> TRUE, ok |-> FALSE, status |-> 0, text |-> ErrorText]
  ELSE [thrown |-> FALSE, ok |-> raw.ok, status |-> raw.status, text |-> raw.text]

\* fetchJson(url): the await of fetchText is outside the try block
fetchJson(raw) ==
  LET ft == fetchText(raw) IN
  IF ft.thrown
  THEN [thrown |-> TRUE, ok |-> FALSE, status |-> 0, json |-> JNull, text |-> ErrorText]
  ELSE IF ParseThrows(ft.text)
       THEN [thrown |-> FALSE, ok |-> FALSE, status |-> ft.status, json |-> JNull,
             text |-> ft.text]
       ELSE [thrown |-> FALSE, ok |-> ft.ok, status |-> ft.status,
             json |-> ParseValue(ft.text), text |-> ft.text]

\* mutant: the catch block reports the error like a response that is not JSON
fetchJsonWithTimeoutNoCatch(raw) ==
  IF raw.kind # "http"
  THEN [thrown |-> TRUE, ok |-> FALSE, status |-> 0, json |-> JNull, text |-> ErrorText]
  ELSE fetchJson(raw)

\* fetchJsonWithTimeout(url): safeFetch and res.text() are inside the try
\* block; a rejection or an abort is caught
fetchJsonWithTimeout(raw) ==
  IF raw.kind # "http"
  THEN [thrown |-> FALSE, ok |-> FALSE, status |-> 0, json |-> JNull, text |-> ErrorText]
  ELSE IF ParseThrows(raw.text)
       THEN [thrown |-> FALSE, ok |-> FALSE, status |-> raw.status, json |-> JNull,
             text |-> raw.text]
       ELSE [thrown |-> FALSE, ok |-> raw.ok, status |-> raw.status,
             json |-> ParseValue(raw.text), text |-> raw.text]

\* r?.json?.evals when it is an array, else the empty array
EvalsOf(json) == IF json.t = "evals" THEN json.evals ELSE <<>>

\* ------------------------------------------------------------------------
\* What the upstream can answer
\* ------------------------------------------------------------------------
\* ids the upstream may list as ongoing: the seeded ghost "2", the settled
\* market "4" and the unknown market "5"
OngoingIds == {"2", "4", "5"}
\* the creation time the upstream reports for each of them
CreatedTs(id) == CASE id = "2" -> 3 [] id = "4" -> 1 [] id = "5" -> 2
Item(id) == [market_id |-> id, created_ts |-> CreatedTs(id)]
ItemPool == {Item(id) : id \in OngoingIds}

\* the name the upstream gives a market ("" when it gives none)
UpstreamName(id) == IF id = "5" THEN "" ELSE "Upstream market"
\* `Market #${marketId}`
MarketHash(id) == CASE id = "2" -> "Market #2" [] id = "4" -> "Market #4"
                    [] id = "5" -> "Market #5" [] OTHER -> "Market #?"
\* `Entry #${idx}`
EntryName(i) ==
  <<"Entry #0", "Entry #1", "Entry #2", "Entry #3", "Entry #4",
    "Entry #5", "Entry #6", "Entry #7", "Entry #8", "Entry #9">>[i + 1]

NoDup(s) == \A i, j \in 1..Len(s) : i # j => s[i].market_id # s[j].market_id
SeqsUpTo(S, n) == UNION {[1..k -> S] : k \in 0..n}
ItemLists == {l \in SeqsUpTo(ItemPool, MaxItems) : NoDup(l)}

ListRaws ==
  {Reject, Http(502, Garbage)} \cup {Http(200, TextOf(JItems(l))) : l \in ItemLists}

\* an evaluation record: its aggregate is a finite number, or it is missing or
\* not a finite number
Ev(v) == [aggregate |-> Some(v)]
EvNaN == [aggregate |-> Null]
OneEval == Ev(10)
EvalsEmptyRaw == Http(200, TextOf(JEvals(<<>>)))
EvalsDataRaw == Http(200, TextOf(JEvals(<<OneEval>>)))
ProbeRaws ==
  {Reject, Http(502, Garbage), EvalsEmptyRaw, EvalsDataRaw,
   Http(500, TextOf(JEvals(<<OneEval>>)))}

\* ------------------------------------------------------------------------
\* State
\* ------------------------------------------------------------------------
VARIABLES
  now,                    \* Date.now()
  GHOST_MARKET_IDS,
  liveMarketCache, liveMarketCacheTime,
  delphiChartCache, delphiChartCacheTime,
  humanBeliefCache, humanBeliefCacheTime,
  historicalCache, historicalCacheTime,
  upList, upEvals, epoch, \* what the upstream has answered since it last changed
  req,                    \* the requests in flight, one per slot
  started,                \* requests sent so far
  lastResp,               \* the last HTTP response sent
  lastCycle,              \* the last completed detection cycle
  call,                   \* one call of the upstream client, step by step
  pred                    \* one call of computeMarketPrediction

caches == <<liveMarketCache, liveMarketCacheTime, delphiChartCache,
            delphiChartCacheTime, humanBeliefCache, humanBeliefCacheTime,
            historicalCache, historicalCacheTime>>
upstream == <<upList, upEvals, epoch>>
history == <<lastResp, lastCycle>>
aux == <<call, pred>>
server == <<now, GHOST_MARKET_IDS, caches, upstream, req, started, history>>
vars == <<now, GHOST_MARKET_IDS, caches, upstream, req, started, history, aux>>

Idle ==
  [kind |-> "idle", pc |-> "idle", qid |-> "", timeframe |-> "",
   dnow |-> 0, cands |-> <<>>, g0 |-> {}, ep |-> 0, dsrc |-> "",
   live |-> Null, now |-> 0, marketId |-> "", dropped |-> FALSE]

IdleCall ==
  [fn |-> "none", pc |-> "idle", timer |-> "none", cleared |-> FALSE, status |-> 0,
   made |-> 0, result |-> Null]

ServerIdle ==
  /\ now = 0
  /\ GHOST_MARKET_IDS = GhostSeed
  /\ liveMarketCache = Null /\ liveMarketCacheTime = 0
  /\ delphiChartCache = Null /\ delphiChartCacheTime = 0
  /\ humanBeliefCache = Null /\ humanBeliefCacheTime = 0
  /\ historicalCache = Null /\ historicalCacheTime = 0
  /\ upList = Null
  /\ upEvals = [id \in OngoingIds |-> [i \in 0..(MaxModels - 1) |-> Null]]
  /\ epoch = 0
  /\ req = [s \in Slots |-> Idle]
  /\ started = 0
  /\ lastResp = Null /\ lastCycle = Null
  /\ call = IdleCall

ServerInit == ServerIdle /\ pred = Null

\* ------------------------------------------------------------------------
\* detectLiveMarket
\* ------------------------------------------------------------------------
\* the cache test of detectLiveMarket
LiveCacheHit(nowv) ==
  /\ ~IsNull(liveMarketCache)
  /\ nowv - liveMarketCacheTime < LIVE_MARKET_CACHE_MS

\* r?.json?.items || []
ItemsOf(json) == IF json.t = "items" THEN json.items ELSE <<>>

\* Array.prototype.sort with (a, b) => (b.created_ts || 0) - (a.created_ts || 0):
\* a stable sort, newest first
RECURSIVE InsertNewestFirst(_, _)
InsertNewestFirst(x, s) ==
  IF s = <<>> THEN <<x>>
  ELSE IF Head(s).created_ts >= x.created_ts
       THEN <<Head(s)>> \o InsertNewestFirst(x, Tail(s))
       ELSE <<x>> \o s
RECURSIVE SortNewestFirst(_)
SortNewestFirst(s) ==
  IF s = <<>> THEN <<>>
  ELSE InsertNewestFirst(s[Len(s)], SortNewestFirst(SubSeq(s, 1, Len(s) - 1)))

\* mutant: the ghost filter is left out
CandidatesUnfiltered(items, ghosts) == SortNewestFirst(items)

\* mutant: the candidates are probed in the order the upstream lists them
CandidatesAsListed(items, ghosts) ==
  SelectSeq(items, LAMBDA m : m.market_id \notin ghosts)

\* Step 1 of detectLiveMarket: filter out the known ghost ids, newest first
Candidates(items, ghosts) ==
  SortNewestFirst(SelectSeq(items, LAMBDA m : m.market_id \notin ghosts))

\* mutant: the set is rebuilt from the new id
GhostAddOnly(ghosts, id) == {id}

\* GHOST_MARKET_IDS.add(marketId)
GhostAdd(ghosts, id) == ghosts \cup {id}

\* marketHasRealData: a probe that throws counts as no data
marketHasRealData(raw) ==
  LET r == fetchJson(raw) IN
  IF r.thrown THEN FALSE ELSE Len(EvalsOf(r.json)) > 0

\* mutant: the status of the answer is not looked at
DiscoverProbeNoStatus(raw) ==
  LET r == fetchJson(raw) IN
  IF r.thrown THEN FALSE
  ELSE r.json.t # "null" /\ Len(EvalsOf(r.json)) > 0

\* one probe of discoverEntryMap
DiscoverProbeOk(raw) ==
  LET r == fetchJson(raw) IN
  IF r.thrown THEN FALSE
  ELSE r.ok /\ r.json.t # "null" /\ Len(EvalsOf(r.json)) > 0

\* discoverEntryMap: raws[i] is the outcome of the probe of modelIdx i
discoverEntryMap(raws) ==
  [i \in {j \in 0..(NumProbes - 1) : DiscoverProbeOk(raws[j])} |-> EntryName(i)]

KnownLive(id) ==
  [market_id |-> id, market_name |-> MARKET_CONFIG[id].name, status |-> "ongoing",
   entryMap |-> MARKET_CONFIG[id].entryMap, isKnown |-> TRUE]

\* mutant: a discovered market is flagged as a configured one
UnknownLiveFlaggedKnown(id, name, entryMap) ==
  [market_id |-> id, market_name |-> IF name # "" THEN name ELSE MarketHash(id),
   status |-> "ongoing", entryMap |-> entryMap, isKnown |-> TRUE]

\* a market that is not in MARKET_CONFIG: const result = {...} with isKnown false
UnknownLive(id, name, entryMap) ==
  [market_id |-> id, market_name |-> IF name # "" THEN name ELSE MarketHash(id),
   status |-> "ongoing", entryMap |-> entryMap, isKnown |-> FALSE]

\* mutant: the fallback is reported as an ongoing market
FallbackLiveOngoing ==
  [market_id |-> "4", market_name |-> MARKET_CONFIG["4"].name, status |-> "ongoing",
   entryMap |-> MARKET_CONFIG["4"].entryMap, isKnown |-> TRUE]

\* the settled-market fallback of detectLiveMarket
FallbackLive ==
  [market_id |-> "4", market_name |-> MARKET_CONFIG["4"].name, status |-> "closed",
   entryMap |-> MARKET_CONFIG["4"].entryMap, isKnown |-> TRUE]

\* a detection cycle of request s ends with result `live`, cached at `time`
CycleDone(s, live, time) ==
  /\ liveMarketCache' = Some(live)
  /\ liveMarketCacheTime' = time
  /\ req' = [req EXCEPT ![s] = [@ EXCEPT !.pc = "detected", !.live = Some(live),
                                         !.dsrc = "fresh", !.cands = <<>>]]
  /\ lastCycle' = Some([result |-> live, ep0 |-> req[s].ep, ep1 |-> epoch])

\* detectLiveMarket has returned to a handler whose continuation is queued as
\* a microtask: it runs before any I/O callback, timer or new request
Running == \E t \in Slots : req[t].pc = "detected"

\* the synchronous head of detectLiveMarket, run when handler `kind` starts
BeginDetect(s, kind, qid, tf) ==
  LET base == [Idle EXCEPT !.kind = kind, !.qid = qid, !.timeframe = tf,
                           !.dnow = now, !.g0 = GHOST_MARKET_IDS, !.ep = epoch]
  IN IF LiveCacheHit(now)
     THEN req' = [req EXCEPT ![s] = [base EXCEPT !.pc = "detected", !.dsrc = "cache",
                                                 !.live = liveMarketCache]]
     ELSE req' = [req EXCEPT ![s] = [base EXCEPT !.pc = "d_list"]]

\* the ongoing-markets query answers.  With `steady` the upstream answers a
\* query the same way until it changes; without, it may change at any time
DetectList(s, lists, steady) ==
  /\ ~Running
  /\ req[s].pc = "d_list"
  /\ \E raw \in lists :
       /\ IF steady /\ ~IsNull(upList) THEN raw = Val(upList) ELSE TRUE
       /\ upList' = IF steady THEN Some(raw) ELSE upList
       /\ LET r == fetchJson(raw)
              cands == IF r.thrown THEN <<>>
                       ELSE Candidates(ItemsOf(r.json), GHOST_MARKET_IDS)
          IN IF cands = <<>>
             THEN CycleDone(s, FallbackLive, now)
             ELSE /\ req' = [req EXCEPT ![s] = [@ EXCEPT !.pc = "d_probe",
                                                          !.cands = cands]]
                  /\ UNCHANGED <<liveMarketCache, liveMarketCacheTime, lastCycle>>
  /\ UNCHANGED <<now, GHOST_MARKET_IDS, delphiChartCache, delphiChartCacheTime,
                 humanBeliefCache, humanBeliefCacheTime, historicalCache,
                 historicalCacheTime, upEvals, epoch, started, lastResp, aux>>

\* the index-0 probe of the first remaining candidate answers
DetectProbe(s, probes, steady) ==
  /\ ~Running
  /\ req[s].pc = "d_probe"
  /\ LET id == req[s].cands[1].market_id
         rest == Tail(req[s].cands)
     IN \E raw \in probes :
          /\ IF steady /\ ~IsNull(upEvals[id][0]) THEN raw = Val(upEvals[id][0]) ELSE TRUE
          /\ upEvals' = IF steady THEN [upEvals EXCEPT ![id][0] = Some(raw)] ELSE upEvals
          /\ IF ~marketHasRealData(raw)
             THEN /\ GHOST_MARKET_IDS' = GhostAdd(GHOST_MARKET_IDS, id)
                  /\ IF rest = <<>>
                     THEN CycleDone(s, FallbackLive, now)
                     ELSE /\ req' = [req EXCEPT ![s] = [@ EXCEPT !.cands = rest]]
                          /\ UNCHANGED <<liveMarketCache, liveMarketCacheTime,
                                         lastCycle>>
             ELSE /\ UNCHANGED GHOST_MARKET_IDS
                  /\ IF id \in MARKET_CONFIG_IDS
                     THEN CycleDone(s, KnownLive(id), req[s].dnow)
                     ELSE /\ req' = [req EXCEPT ![s] = [@ EXCEPT !.pc = "d_disc"]]
                          /\ UNCHANGED <<liveMarketCache, liveMarketCacheTime,
                                         lastCycle>>
  /\ UNCHANGED <<now, delphiChartCache, delphiChartCacheTime, humanBeliefCache,
                 humanBeliefCacheTime, historicalCache, historicalCacheTime,
                 upList, epoch, started, lastResp, aux>>

\* the probes of discoverEntryMap have all answered
DetectDiscover(s, probes, steady) ==
  /\ ~Running
  /\ req[s].pc = "d_disc"
  /\ LET id == req[s].cands[1].market_id IN
     \E low \in [0..(MaxModels - 1) -> probes] :
       /\ \A i \in 0..(MaxModels - 1) :
            IF steady /\ ~IsNull(upEvals[id][i]) THEN low[i] = Val(upEvals[id][i]) ELSE TRUE
       /\ upEvals' = IF steady
                     THEN [upEvals EXCEPT ![id] = [i \in 0..(MaxModels - 1) |-> Some(low[i])]]
                     ELSE upEvals
       /\ LET raws == [i \in 0..(NumProbes - 1) |->
                         IF i < MaxModels THEN low[i] ELSE EvalsEmptyRaw]
          IN CycleDone(s, UnknownLive(id, UpstreamName(id), discoverEntryMap(raws)),
                       req[s].dnow)
  /\ UNCHANGED <<now, GHOST_MARKET_IDS, delphiChartCache, delphiChartCacheTime,
                 humanBeliefCache, humanBeliefCacheTime, historicalCache,
                 historicalCacheTime, upList, epoch, started, lastResp, aux>>

\* ------------------------------------------------------------------------
\* HTTP responses
\* ------------------------------------------------------------------------
NoCache == "no-cache, no-store, must-revalidate"

\* res.json(body) of request r.  src tells where the body comes from: a cache
\* slot ("cache"), a fresh computation ("fresh") or an error path ("error");
\* cacheControl is the Cache-Control header, "" when none is set
\* marketId is the market id the handler resolved ("" when it resolves none)
Respond(r, marketId, status, body, cacheControl, src) ==
  lastResp' = Some([kind |-> r.kind, marketId |-> marketId, status |-> status,
                    body |-> body, cacheControl |-> cacheControl, src |-> src])

\* ------------------------------------------------------------------------
\* GET /api/live-market
\* ------------------------------------------------------------------------
\* a client sends a request; it is served in the lowest free slot
Accept(s) ==
  /\ ~Running
  /\ req[s].pc = "idle"
  /\ \A t \in Slots : t < s => req[t].pc # "idle"
  /\ started < MaxRequests

LiveMarketStart(s) ==
  /\ Accept(s)
  /\ started' = started + 1
  /\ BeginDetect(s, "live", "", "")
  /\ UNCHANGED <<now, GHOST_MARKET_IDS, caches, upstream, history, aux>>

LiveMarketRespond(s) ==
  /\ req[s].kind = "live" /\ req[s].pc = "detected"
  /\ LET live == Val(req[s].live) IN
     Respond(req[s], "", 200,
             [market_id |-> live.market_id, market_name |-> live.market_name,
              status |-> live.status, is_live |-> (live.status = "ongoing"),
              entry_map |-> live.entryMap,
              entry_count |-> Cardinality(Keys(live.entryMap)),
              is_known_market |-> live.isKnown, fetched_at |-> now],
             NoCache, "fresh")
  /\ req' = [req EXCEPT ![s] = Idle]
  /\ UNCHANGED <<now, GHOST_MARKET_IDS, caches, upstream, started, lastCycle, aux>>

\* ------------------------------------------------------------------------
\* The environment: the clock and the upstream
\* ------------------------------------------------------------------------
Busy == \E s \in Slots : req[s].pc # "idle"
\* the clients still have something to send or to wait for
Active == started < MaxRequests \/ Busy

Tick(instants) ==
  /\ Active /\ ~Running
  /\ \E t \in instants :
       /\ t > now
       /\ now' = t
  /\ UNCHANGED <<GHOST_MARKET_IDS, caches, upstream, req, started, history, aux>>

\* the upstream changes: every later answer is free again
UpstreamChange ==
  /\ epoch < MaxEpochs
  /\ Active /\ ~Running
  /\ epoch' = epoch + 1
  /\ upList' = Null
  /\ upEvals' = [id \in OngoingIds |-> [i \in 0..(MaxModels - 1) |-> Null]]
  /\ UNCHANGED <<now, GHOST_MARKET_IDS, caches, req, started, history, aux>>

\* ------------------------------------------------------------------------
\* The live market detector alone, behind GET /api/live-market
\* ------------------------------------------------------------------------
DetectNext ==
  \/ \E s \in Slots : LiveMarketStart(s)
  \/ \E s \in Slots : DetectList(s, ListRaws, TRUE)
  \/ \E s \in Slots : DetectProbe(s, ProbeRaws, TRUE)
  \/ \E s \in Slots : DetectDiscover(s, ProbeRaws, TRUE)
  \/ \E s \in Slots : LiveMarketRespond(s)
  \/ Tick(DetectInstants)
  \/ UpstreamChange

DetectSpec == ServerInit /\ [][DetectNext]_vars

\* ------------------------------------------------------------------------
\* Exact arithmetic on scores: a rational is <<numerator, denominator>> in
\* lowest terms with a positive denominator
\* ------------------------------------------------------------------------
Abs(n) == IF n < 0 THEN -n ELSE n
RECURSIVE Gcd(_, _)
Gcd(a, b) == IF b = 0 THEN a ELSE Gcd(b, a % b)
Rat(n, d) ==
  LET g == Gcd(Abs(n), Abs(d))
      sgn == IF d < 0 THEN -1 ELSE 1
  IN <<sgn * (n \div g), sgn * (d \div g)>>
RInt(n) == <<n, 1>>
RAdd(a, b) == Rat(a[1] * b[2] + b[1] * a[2], a[2] * b[2])
RMul(a, b) == Rat(a[1] * b[1], a[2] * b[2])
RDiv(a, b) == Rat(a[1] * b[2], a[2] * b[1])
RGt(a, b) == a[1] * b[2] > b[1] * a[2]
RECURSIVE RSum(_)
RSum(s) == IF s = <<>> THEN RInt(0) ELSE RAdd(s[1], RSum(Tail(s)))
RECURSIVE SumInts(_)
SumInts(s) == IF s = <<>> THEN 0 ELSE s[1] + SumInts(Tail(s))
Max(a, b) == IF a > b THEN a ELSE b

\* ------------------------------------------------------------------------
\* computeMarketPrediction
\* ------------------------------------------------------------------------
\* Object.keys(entryMap): integer keys in ascending order
RECURSIVE KeySeq(_)
KeySeq(S) ==
  IF S = {} THEN <<>>
  ELSE LET k == CHOOSE x \in S : \A y \in S : x <= y IN <<k>> \o KeySeq(S \ {k})

\* one joined task of the Promise.all: fetchJson().then().catch()
EvalTask(idx, raw) ==
  LET r == fetchJson(raw) IN
  IF r.thrown THEN [modelIdx |-> idx, ok |-> FALSE, json |-> JNull]
  ELSE [modelIdx |-> idx, ok |-> r.ok, json |-> r.json]

\* mutant: a record without a finite aggregate counts as 1
AggregateMissingOne(e) == IF IsNull(e.aggregate) THEN 1 ELSE Val(e.aggregate)

\* typeof e?.aggregate === "number" && Number.isFinite(e.aggregate) ? e.aggregate : 0
Aggregate(e) == IF IsNull(e.aggregate) THEN 0 ELSE Val(e.aggregate)
Aggregates(evals) == [i \in 1..Len(evals) |-> Aggregate(evals[i])]

\* mutant: a model without records gets the average 1
AvgAggregateEmptyOne(aggregates) ==
  IF Len(aggregates) > 0 THEN Rat(SumInts(aggregates), Len(aggregates)) ELSE RInt(1)

\* aggregates.reduce((a, b) => a + b, 0) / aggregates.length, or 0
AvgAggregate(aggregates) ==
  IF Len(aggregates) > 0 THEN Rat(SumInts(aggregates), Len(aggregates)) ELSE RInt(0)

\* obj[key] = value on an insertion-ordered object kept as a sequence of
\* entries: an existing key keeps its place
SetKey(obj, key, value) ==
  IF \E i \in 1..Len(obj) : obj[i].model = key
  THEN [i \in 1..Len(obj) |-> IF obj[i].model = key THEN value ELSE obj[i]]
  ELSE Append(obj, value)

\* the loop over allEvals that fills perModel
RECURSIVE PerModel(_, _, _)
PerModel(entryMap, tasks, acc) ==
  IF tasks = <<>> THEN acc
  ELSE LET r == tasks[1]
           name == IF r.modelIdx \in DOMAIN entryMap /\ entryMap[r.modelIdx] # ""
                   THEN entryMap[r.modelIdx] ELSE EntryName(r.modelIdx)
           evals == EvalsOf(r.json)
           aggregates == Aggregates(evals)
       IN PerModel(entryMap, Tail(tasks),
                   SetKey(acc, name,
                          [model |-> name, modelIdx |-> r.modelIdx,
                           avgAggregate |-> AvgAggregate(aggregates),
                           perEvalAggregates |-> aggregates,
                           evalCount |-> Len(evals), upstream_ok |-> r.ok]))

\* Object.values(perModel).reduce((s, o) => s + o.avgAggregate, 0)
TotalScore(perModel) == RSum([i \in 1..Len(perModel) |-> perModel[i].avgAggregate])

\* mutant: the factor 100 is forgotten
BeliefFraction(avg, total) == RDiv(avg, total)

\* (obj.avgAggregate / totalScore) * 100
Belief(avg, total) == RMul(RDiv(avg, total), RInt(100))

\* mutant: a later model with an equal belief replaces the winner
RECURSIVE PickWinnerLast(_, _, _)
PickWinnerLast(beliefs, winner, top) ==
  IF beliefs = <<>> THEN [predictedWinner |-> winner, topBelief |-> top]
  ELSE IF ~RGt(top, beliefs[1].belief)
       THEN PickWinnerLast(Tail(beliefs), Some(beliefs[1].model), beliefs[1].belief)
       ELSE PickWinnerLast(Tail(beliefs), winner, top)

\* the loop that fills beliefs and picks predictedWinner and topBelief
RECURSIVE PickWinner(_, _, _)
PickWinner(beliefs, winner, top) ==
  IF beliefs = <<>> THEN [predictedWinner |-> winner, topBelief |-> top]
  ELSE IF RGt(beliefs[1].belief, top)
       THEN PickWinner(Tail(beliefs), Some(beliefs[1].model), beliefs[1].belief)
       ELSE PickWinner(Tail(beliefs), winner, top)

\* evalCount = Math.max(evalCount, evals.length) over allEvals
RECURSIVE MaxEvalCount(_)
MaxEvalCount(tasks) ==
  IF tasks = <<>> THEN 0
  ELSE Max(Len(EvalsOf(tasks[1].json)), MaxEvalCount(Tail(tasks)))

\* computeMarketPrediction(marketId, entryMap): raws[idx] is the outcome of
\* the evals request for model index idx
computeMarketPrediction(entryMap, raws) ==
  IF Keys(entryMap) = {}
  THEN [perModel |-> <<>>, beliefs |-> <<>>, predictedWinner |-> Null,
        topBelief |-> RInt(0), evalCount |-> 0]
  ELSE LET idxKeys == KeySeq(Keys(entryMap))
           allEvals == [i \in 1..Len(idxKeys) |-> EvalTask(idxKeys[i], raws[idxKeys[i]])]
           perModel == PerModel(entryMap, allEvals, <<>>)
           totalScore == TotalScore(perModel)
           beliefs == IF RGt(totalScore, RInt(0))
                      THEN [i \in 1..Len(perModel) |->
                              [model |-> perModel[i].model,
                               belief |-> Belief(perModel[i].avgAggregate, totalScore)]]
                      ELSE <<>>
           pick == PickWinner(beliefs, Null, RInt(0))
       IN [perModel |-> perModel, beliefs |-> beliefs,
           predictedWinner |-> pick.predictedWinner, topBelief |-> pick.topBelief,
           evalCount |-> MaxEvalCount(allEvals)]

\* ------------------------------------------------------------------------
\* The prediction engine alone: one call on chosen inputs
\* ------------------------------------------------------------------------
\* entry maps: those of MARKET_CONFIG, the two-model map of the end-to-end
\* example, a map that names one model twice, a discovered map with a gap,
\* and the empty map
PredMaps ==
  {MARKET_CONFIG[id].entryMap : id \in MARKET_CONFIG_IDS}
    \cup {MapOfSeq(<<"X", "Y">>), MapOfSeq(<<"X", "Y", "X">>),
          [i \in {0, 2} |-> EntryName(i)], EmptyMap}
\* what the evals request of one model index can bring
PredRaws ==
  {Reject,
   Http(200, TextOf(JEvals(<<>>))),
   Http(200, TextOf(JEvals(<<Ev(10), Ev(20)>>))),
   Http(200, TextOf(JEvals(<<Ev(5)>>))),
   Http(200, TextOf(JEvals(<<EvNaN, Ev(0)>>))),
   Http(200, TextOf(JEvals(<<EvNaN, Ev(10)>>))),
   Http(200, TextOf(JEvals(<<Ev(-5)>>)))}

PredInit ==
  /\ ServerIdle
  /\ \E entryMap \in PredMaps :
       \E raws \in [Keys(entryMap) -> PredRaws] :
         pred = Some([entryMap |-> entryMap, raws |-> raws, done |-> FALSE,
                      out |-> computeMarketPrediction(EmptyMap, raws)])

PredCompute ==
  /\ ~IsNull(pred) /\ ~Val(pred).done
  /\ pred' = Some([Val(pred) EXCEPT
                     !.done = TRUE,
                     !.out = computeMarketPrediction(Val(pred).entryMap, Val(pred).raws)])
  /\ UNCHANGED <<server, call>>

PredNext == PredCompute

PredSpec == PredInit /\ [][PredNext]_vars

\* ------------------------------------------------------------------------
\* Winner resolution
\* ------------------------------------------------------------------------
\* String(name || "").trim().toLowerCase().replace(/\s+/g, " "): the names in
\* use hold no surrounding or repeated white space, so only the case changes
normalizeName(name) ==
  CASE name = "Qwen/Qwen3-30B-A3B-Instruct-2507" -> "qwen/qwen3-30b-a3b-instruct-2507"
    [] name = "Qwen/Qwen3-8B" -> "qwen/qwen3-8b"
    [] name = "TBD" -> "tbd"
    [] name = "X" -> "x"
    [] name = "Y" -> "y"
    [] name = "Entry #0" -> "entry #0"
    [] name = "Entry #1" -> "entry #1"
    [] name = "Entry #2" -> "entry #2"
    [] OTHER -> name

\* mutant: a document of any shape passes for a chart
MarketChartOfAnyShape(json) ==
  Some([data_points |-> IF json.t = "chart" THEN json.data_points ELSE <<>>])

\* the three places where a chart document may hold its data points
MarketChartOf(json) ==
  IF json.t = "chart" THEN Some([data_points |-> json.data_points]) ELSE Null

\* the loop of pickWinnerFromChart: the first entry with the highest finite price
RECURSIVE BestEntry(_, _)
BestEntry(entries, best) ==
  IF entries = <<>> THEN best
  ELSE LET e == entries[1] IN
       IF IsNull(e.price) THEN BestEntry(Tail(entries), best)
       ELSE IF IsNull(best) \/ Val(e.price) > Val(best).price
            THEN BestEntry(Tail(entries),
                           Some([idx |-> e.entry_idx, price |-> Val(e.price)]))
            ELSE BestEntry(Tail(entries), best)

pickWinnerFromChart(chartJson, entryMap) ==
  LET mc == MarketChartOf(chartJson) IN
  IF IsNull(mc) THEN Null
  ELSE LET pts == Val(mc).data_points IN
       IF pts = <<>> THEN Null
       ELSE LET entries == pts[Len(pts)].entries
                best == BestEntry(entries, Null)
            IN IF IsNull(best) THEN Null
               ELSE IF Val(best).idx \in Keys(entryMap) /\ entryMap[Val(best).idx] # ""
                    THEN Some(entryMap[Val(best).idx])
                    ELSE Null

\* mutant: the chart is consulted first and the confirmed winner is the fallback
resolveWinnerChartFirst(entryMap, confirmedWinner, raw) ==
  LET r == fetchJson(raw)
      w == IF ~r.thrown /\ r.ok /\ r.json.t # "null"
           THEN pickWinnerFromChart(r.json, entryMap) ELSE Null
  IN IF ~IsNull(w)
     THEN [thrown |-> FALSE, actualWinner |-> Val(w), source |-> "chart_top_price",
           chartRequests |-> 1]
     ELSE IF confirmedWinner # ""
          THEN [thrown |-> FALSE, actualWinner |-> confirmedWinner,
                source |-> "confirmed", chartRequests |-> 1]
          ELSE [thrown |-> r.thrown, actualWinner |-> "TBD", source |-> "unavailable",
                chartRequests |-> 1]

\* resolveWinnerFromChart: confirmedWinner is "" when the config gives none; raw
\* is the outcome of the chart request, made only in that case; chartRequests
\* counts the upstream requests the call made
resolveWinnerFromChart(entryMap, confirmedWinner, raw) ==
  IF confirmedWinner # ""
  THEN [thrown |-> FALSE, actualWinner |-> confirmedWinner, source |-> "confirmed",
        chartRequests |-> 0]
  ELSE LET r == fetchJson(raw) IN
       IF r.thrown
       THEN [thrown |-> TRUE, actualWinner |-> "", source |-> "", chartRequests |-> 1]
       ELSE LET w == IF r.ok /\ r.json.t # "null"
                     THEN pickWinnerFromChart(r.json, entryMap) ELSE Null
            IN IF ~IsNull(w)
               THEN [thrown |-> FALSE, actualWinner |-> Val(w),
                     source |-> "chart_top_price", chartRequests |-> 1]
               ELSE [thrown |-> FALSE, actualWinner |-> "TBD",
                     source |-> "unavailable", chartRequests |-> 1]

\* ------------------------------------------------------------------------
\* The winner resolver alone: one call on chosen inputs
\* ------------------------------------------------------------------------
\* what GET /markets/{id} would answer: a market object that may name its
\* winner directly, by a winning index, or by an index inside a nested
\* resolution object; the resolver never sends this request
UpstreamMarkets ==
  {[winner |-> w[1], winning_index |-> w[2], resolution |-> [index |-> w[3]]] :
     w \in {<<Null, Null, Null>>, <<Some("Y"), Null, Null>>,
            <<Null, Some(1), Null>>, <<Null, Null, Some(1)>>}}
\* what the chart request can bring: a transport failure, a body that is not
\* JSON, null, a chart without data points, charts whose highest price is at
\* index 0, at index 1, and at an index the entry map does not hold
WinnerCharts ==
  {Reject, Http(502, Garbage), Http(200, TextOf(JNull)),
   Http(200, TextOf(JChart("nested", <<>>))),
   Http(200, TextOf(JChart("nested",
     <<[entries |-> <<[entry_idx |-> 0, price |-> Some(30)], [entry_idx |-> 1, price |-> Some(70)]>>],
       [entries |-> <<[entry_idx |-> 0, price |-> Some(70)], [entry_idx |-> 1, price |-> Some(30)]>>]>>))),
   Http(200, TextOf(JChart("flat",
     <<[entries |-> <<[entry_idx |-> 0, price |-> Some(30)], [entry_idx |-> 1, price |-> Some(70)]>>]>>))),
   Http(200, TextOf(JChart("flat",
     <<[entries |-> <<[entry_idx |-> 0, price |-> Null], [entry_idx |-> 9, price |-> Some(50)]>>]>>)))}
\* the entry map and confirmed winner the resolver is called with: those of
\* MARKET_CONFIG, and a two-model map with and without a confirmed winner
WinnerConfigs ==
  {[entryMap |-> MARKET_CONFIG[id].entryMap,
    confirmedWinner |-> MARKET_CONFIG[id].confirmedWinner] : id \in MARKET_CONFIG_IDS}
    \cup {[entryMap |-> MapOfSeq(<<"X", "Y">>), confirmedWinner |-> c] :
            c \in {"", "X", "Y"}}

WinnerInit ==
  /\ ServerIdle
  /\ \E config \in WinnerConfigs, market \in UpstreamMarkets, raw \in WinnerCharts :
       pred = Some([entryMap |-> config.entryMap,
                    confirmedWinner |-> config.confirmedWinner,
                    market |-> market, chartRaw |-> raw, done |-> FALSE,
                    out |-> [thrown |-> FALSE, actualWinner |-> "", source |-> "",
                             chartRequests |-> 0]])

WinnerResolve ==
  /\ ~IsNull(pred) /\ ~Val(pred).done
  /\ pred' = Some([Val(pred) EXCEPT
                     !.done = TRUE,
                     !.out = resolveWinnerFromChart(Val(pred).entryMap,
                                                    Val(pred).confirmedWinner,
                                                    Val(pred).chartRaw)])
  /\ UNCHANGED <<server, call>>

WinnerSpec == WinnerInit /\ [][WinnerResolve]_vars

\* ------------------------------------------------------------------------
\* GET /api/historical-analysis
\* ------------------------------------------------------------------------
HistCacheHit(nowv) ==
  /\ ~IsNull(historicalCache)
  /\ nowv - historicalCacheTime < HISTORICAL_CACHE_MS

\* mutant: any prediction for a market with a known winner counts as correct
IsCorrectAnyPrediction(predictedWinner, actualWinner) ==
  /\ ~IsNull(predictedWinner)
  /\ actualWinner # ""
  /\ actualWinner # "TBD"

\* const correct = !!predictedWinner && !!actualWinner && actualWinner !== "TBD"
\*   && normalizeName(predictedWinner) === normalizeName(actualWinner)
IsCorrect(predictedWinner, actualWinner) ==
  /\ ~IsNull(predictedWinner)
  /\ actualWinner # ""
  /\ actualWinner # "TBD"
  /\ normalizeName(Val(predictedWinner)) = normalizeName(actualWinner)

\* one turn of the loop over MARKET_ORDER: raws[idx] is what the evals request
\* of model index idx of the market brings, chartRaw what its chart request brings
HistResult(marketId, raws, chartRaw) ==
  LET config == MARKET_CONFIG[marketId]
      p == computeMarketPrediction(config.entryMap, raws)
      w == resolveWinnerFromChart(config.entryMap, config.confirmedWinner, chartRaw)
  IN IF w.thrown
     THEN [marketId |-> marketId, displayNum |-> config.displayNum,
           marketName |-> config.name, error |-> TRUE]
     ELSE [marketId |-> marketId, displayNum |-> config.displayNum,
           marketName |-> config.name, error |-> FALSE,
           actualWinner |-> w.actualWinner, actual_winner_source |-> w.source,
           predictedWinner |-> IF IsNull(p.predictedWinner) THEN "No prediction"
                               ELSE Val(p.predictedWinner),
           beliefScore |-> p.topBelief,
           correct |-> IsCorrect(p.predictedWinner, w.actualWinner),
           evalCount |-> p.evalCount, beliefs |-> p.beliefs, perModel |-> p.perModel]

HistPayload(results) ==
  LET successful == SelectSeq(results, LAMBDA r : ~r.error)
      correctPredictions == Len(SelectSeq(successful, LAMBDA r : r.correct))
  IN [markets |-> results,
      winRate |-> IF Len(successful) > 0
                  THEN Rat(correctPredictions * 100, Len(successful)) ELSE RInt(0),
      totalMarkets |-> Len(successful), settledMarkets |-> Len(successful),
      correctPredictions |-> correctPredictions]

\* the request arrives: it is served from the slot, or the pass begins
HistStart(s) ==
  /\ Accept(s)
  /\ started' = started + 1
  /\ LET r == [Idle EXCEPT !.kind = "hist", !.dnow = now, !.now = now] IN
     IF HistCacheHit(now)
     THEN /\ Respond(r, "", 200, Val(historicalCache), "", "cache")
          /\ UNCHANGED req
     ELSE /\ req' = [req EXCEPT ![s] = [r EXCEPT !.pc = "h_run"]]
          /\ UNCHANGED lastResp
  /\ UNCHANGED <<now, GHOST_MARKET_IDS, caches, upstream, lastCycle, aux>>

\* the pass over MARKET_ORDER ends: scen[id][idx] is what the evals request of
\* model index idx of market id brought
HistFinish(s, scens) ==
  /\ ~Running
  /\ req[s].kind = "hist" /\ req[s].pc = "h_run"
  /\ \E scen \in scens :
       LET payload == HistPayload([k \in 1..Len(MARKET_ORDER) |->
                         HistResult(MARKET_ORDER[k], scen[MARKET_ORDER[k]], Reject)])
       IN /\ historicalCache' = Some(payload)
          /\ historicalCacheTime' = now
          /\ Respond(req[s], "", 200, payload, "", "fresh")
  /\ req' = [req EXCEPT ![s] = Idle]
  /\ UNCHANGED <<now, GHOST_MARKET_IDS, liveMarketCache, liveMarketCacheTime,
                 delphiChartCache, delphiChartCacheTime, humanBeliefCache,
                 humanBeliefCacheTime, upstream, started, lastCycle, aux>>

\* ------------------------------------------------------------------------
\* GET /api/delphi-chart
\* ------------------------------------------------------------------------
\* String(req.query.timeframe || "auto")
TimeframeOf(q) == IF q = "" THEN "auto" ELSE q

ChartStart(s, qids, tfs) ==
  /\ Accept(s)
  /\ started' = started + 1
  /\ \E qid \in qids, tf \in tfs : BeginDetect(s, "chart", qid, TimeframeOf(tf))
  /\ UNCHANGED <<now, GHOST_MARKET_IDS, caches, upstream, history, aux>>

\* req.query.market_id ? String(req.query.market_id) : live.market_id
ChartMarketId(qid, live) == IF qid # "" THEN qid ELSE live.market_id

\* config?.entryMap || (marketId === live.market_id ? live.entryMap : {})
ChartEntryMap(marketId, live) ==
  IF marketId \in MARKET_CONFIG_IDS THEN MARKET_CONFIG[marketId].entryMap
  ELSE IF marketId = live.market_id THEN live.entryMap ELSE EmptyMap

\* a slot that is bound to another market is dropped
SlotBoundElsewhere(cache, marketId) ==
  ~IsNull(cache) /\ Val(cache).market_id # marketId

\* mutant: the slot is kept whatever market it is bound to
KeepSlot(cache, marketId) == cache

Invalidate(cache, marketId) ==
  IF SlotBoundElsewhere(cache, marketId) THEN Null ELSE cache
InvalidateTime(cache, time, marketId) ==
  IF SlotBoundElsewhere(cache, marketId) THEN 0 ELSE time

\* mutant: a payload is still served when its age equals the TTL
ChartCacheHitInclusive(cache, time, nowv) ==
  ~IsNull(cache) /\ nowv - time <= CACHE_DURATION_MS

ChartCacheHit(cache, time, nowv) ==
  ~IsNull(cache) /\ nowv - time < CACHE_DURATION_MS

\* detectLiveMarket has returned: invalidate, then serve the slot or fetch
ChartCheck(s) ==
  /\ req[s].kind = "chart" /\ req[s].pc = "detected"
  /\ LET marketId == ChartMarketId(req[s].qid, Val(req[s].live))
         cache == Invalidate(delphiChartCache, marketId)
         time == InvalidateTime(delphiChartCache, delphiChartCacheTime, marketId)
         dropped == /\ SlotBoundElsewhere(delphiChartCache, marketId)
                    /\ now - delphiChartCacheTime < CACHE_DURATION_MS
     IN /\ delphiChartCache' = cache
        /\ delphiChartCacheTime' = time
        /\ IF ChartCacheHit(cache, time, now)
           THEN /\ Respond(req[s], marketId, 200, Val(cache), "", "cache")
                /\ req' = [req EXCEPT ![s] = Idle]
           ELSE /\ req' = [req EXCEPT ![s] = [@ EXCEPT !.pc = "c_fetch", !.now = now,
                                                        !.marketId = marketId,
                                                        !.dropped = dropped]]
                /\ UNCHANGED lastResp
  /\ UNCHANGED <<now, GHOST_MARKET_IDS, liveMarketCache, liveMarketCacheTime,
                 humanBeliefCache, humanBeliefCacheTime, historicalCache,
                 historicalCacheTime, upstream, started, lastCycle, aux>>

\* the chart request answers
ChartFetched(s, raws) ==
  /\ ~Running
  /\ req[s].kind = "chart" /\ req[s].pc = "c_fetch"
  /\ \E raw \in raws :
       LET r == fetchJson(raw)
           market_chart == MarketChartOf(r.json)
           response == [market_id |-> req[s].marketId, timeframe |-> req[s].timeframe,
                        fetched_at |-> now, market_chart |-> market_chart,
                        entry_map |-> ChartEntryMap(req[s].marketId, Val(req[s].live)),
                        entry_map_source |-> "confirmed_config"]
       IN IF r.thrown
          THEN /\ Respond(req[s], req[s].marketId, 500, [error |-> "thrown"], "", "error")
               /\ UNCHANGED <<delphiChartCache, delphiChartCacheTime>>
          ELSE IF r.json.t = "null"
          THEN /\ Respond(req[s], req[s].marketId, 502, [error |-> "bad_upstream_json"],
                          "", "error")
               /\ UNCHANGED <<delphiChartCache, delphiChartCacheTime>>
          ELSE IF IsNull(market_chart)
          THEN /\ Respond(req[s], req[s].marketId, 502, [error |-> "unexpected_upstream_shape"], "",
                          "error")
               /\ UNCHANGED <<delphiChartCache, delphiChartCacheTime>>
          ELSE /\ delphiChartCache' = Some(response)
               /\ delphiChartCacheTime' = req[s].now
               /\ Respond(req[s], req[s].marketId, 200, response, NoCache, "fresh")
  /\ req' = [req EXCEPT ![s] = Idle]
  /\ UNCHANGED <<now, GHOST_MARKET_IDS, liveMarketCache, liveMarketCacheTime,
                 humanBeliefCache, humanBeliefCacheTime, historicalCache,
                 historicalCacheTime, upstream, started, lastCycle, aux>>

\* ------------------------------------------------------------------------
\* GET /api/human-belief
\* ------------------------------------------------------------------------
BeliefStart(s) ==
  /\ Accept(s)
  /\ started' = started + 1
  /\ BeginDetect(s, "belief", "", "")
  /\ UNCHANGED <<now, GHOST_MARKET_IDS, caches, upstream, history, aux>>

HbCacheHit(cache, time, nowv) ==
  ~IsNull(cache) /\ nowv - time < HUMAN_BELIEF_CACHE_MS

\* detectLiveMarket has returned: invalidate, then serve the slot or start one
\* fetchJsonWithTimeout per model index
BeliefCheck(s) ==
  /\ req[s].kind = "belief" /\ req[s].pc = "detected"
  /\ LET live == Val(req[s].live)
         marketId == live.market_id
         modelCount == Cardinality(Keys(live.entryMap))
         cache == Invalidate(humanBeliefCache, marketId)
         time == InvalidateTime(humanBeliefCache, humanBeliefCacheTime, marketId)
         dropped == /\ SlotBoundElsewhere(humanBeliefCache, marketId)
                    /\ now - humanBeliefCacheTime < HUMAN_BELIEF_CACHE_MS
     IN /\ humanBeliefCache' = cache
        /\ humanBeliefCacheTime' = time
        /\ IF HbCacheHit(cache, time, now)
           THEN /\ Respond(req[s], marketId, 200, Val(cache), "", "cache")
                /\ req' = [req EXCEPT ![s] = Idle]
           ELSE /\ req' = [req EXCEPT ![s] = [@ EXCEPT !.pc = "b_tasks", !.now = now,
                                                        !.marketId = marketId,
                                                        !.dropped = dropped]]
                /\ UNCHANGED lastResp
  /\ UNCHANGED <<now, GHOST_MARKET_IDS, liveMarketCache, liveMarketCacheTime,
                 delphiChartCache, delphiChartCacheTime, historicalCache,
                 historicalCacheTime, upstream, started, lastCycle, aux>>

\* mutant: only the tasks that brought a document are kept in raw
HumanBeliefPayloadAnswered(marketId, live, f, fetchedAt) ==
  LET modelCount == Cardinality(Keys(live.entryMap)) IN
  [market_id |-> marketId, market_name |-> live.market_name,
   status |-> live.status, fetched_at |-> fetchedAt,
   model_names |-> [i \in 1..modelCount |->
                      IF (i - 1) \in Keys(live.entryMap) /\ live.entryMap[i - 1] # ""
                      THEN live.entryMap[i - 1] ELSE EntryName(i - 1)],
   raw |-> SelectSeq([i \in 1..modelCount |-> fetchJsonWithTimeout(f[i - 1]).json],
                     LAMBDA j : j # JNull)]

\* the payload of human-belief: f[i] is how the task of model index i ended,
\* for i = 0 .. modelCount - 1
HumanBeliefPayload(marketId, live, f, fetchedAt) ==
  LET modelCount == Cardinality(Keys(live.entryMap)) IN
  [market_id |-> marketId, market_name |-> live.market_name,
   status |-> live.status, fetched_at |-> fetchedAt,
   model_names |-> [i \in 1..modelCount |->
                      IF (i - 1) \in Keys(live.entryMap) /\ live.entryMap[i - 1] # ""
                      THEN live.entryMap[i - 1] ELSE EntryName(i - 1)],
   raw |-> [i \in 1..modelCount |-> fetchJsonWithTimeout(f[i - 1]).json]]

\* Promise.allSettled(evalTasks) resolves: pats holds the ways the tasks may
\* end, each giving for every model index a response, a rejection or the abort
\* of its timer
BeliefSettled(s, pats) ==
  /\ ~Running
  /\ req[s].kind = "belief" /\ req[s].pc = "b_tasks"
  /\ \E f \in pats :
          LET payload == HumanBeliefPayload(req[s].marketId, Val(req[s].live), f, now)
          IN /\ humanBeliefCache' = Some(payload)
             /\ humanBeliefCacheTime' = req[s].now
             /\ Respond(req[s], req[s].marketId, 200, payload, NoCache, "fresh")
  /\ req' = [req EXCEPT ![s] = Idle]
  /\ UNCHANGED <<now, GHOST_MARKET_IDS, liveMarketCache, liveMarketCacheTime,
                 delphiChartCache, delphiChartCacheTime, historicalCache,
                 historicalCacheTime, upstream, started, lastCycle, aux>>

\* ------------------------------------------------------------------------
\* The server: the four endpoints, the clock and the upstream
\* ------------------------------------------------------------------------
\* the ongoing-markets query fails or lists the unknown market "5"
ServerLists == {Reject, Http(200, TextOf(JItems(<<Item("5")>>)))}
ServerProbes == {EvalsEmptyRaw, EvalsDataRaw}
\* every index the discovery of the unknown market probes holds data
ServerDiscoverProbes == {EvalsDataRaw}
ChartRaws ==
  {Reject, Http(502, Garbage), Http(200, TextOf(JChart("nested", <<[entries |-> <<>>]>>)))}
\* every task of a human-belief request times out, or every task brings data
BeliefPatterns == {[i \in 0..(NumProbes - 1) |-> raw] : raw \in {Abort, EvalsDataRaw}}
HistScens ==
  {[id \in MARKET_CONFIG_IDS |-> [i \in Keys(MARKET_CONFIG[id].entryMap) |-> EvalsDataRaw]]}
\* query parameters of a chart request
ChartQueryIds == {"", "0"}
ChartQueryTimeframes == {""}

Init == ServerInit

Next ==
  \/ \E s \in Slots : LiveMarketStart(s)
  \/ \E s \in Slots : ChartStart(s, ChartQueryIds, ChartQueryTimeframes)
  \/ \E s \in Slots : BeliefStart(s)
  \/ \E s \in Slots : HistStart(s)
  \/ \E s \in Slots : DetectList(s, ServerLists, FALSE)
  \/ \E s \in Slots : DetectProbe(s, ServerProbes, FALSE)
  \/ \E s \in Slots : DetectDiscover(s, ServerDiscoverProbes, FALSE)
  \/ \E s \in Slots : LiveMarketRespond(s)
  \/ \E s \in Slots : ChartCheck(s)
  \/ \E s \in Slots : ChartFetched(s, ChartRaws)
  \/ \E s \in Slots : BeliefCheck(s)
  \/ \E s \in Slots : BeliefSettled(s, BeliefPatterns)
  \/ \E s \in Slots : HistFinish(s, HistScens)
  \/ Tick(Instants)

Spec == Init /\ [][Next]_vars

\* ------------------------------------------------------------------------
\* The belief pipeline alone, with the scheduling the runtime guarantees
\* ------------------------------------------------------------------------
\* the 9 s timers of the pending fetchJsonWithTimeout tasks fire: every task
\* is aborted.  The timers are not tied to the instants of the clock.
BeliefTimeout(s) ==
  /\ req[s].pc = "b_tasks"
  /\ BeliefSettled(s, {[i \in 0..(NumProbes - 1) |-> Abort]})

\* request r awaits the answer of an upstream call
WaitsOnUpstream(r) == r.pc \in {"d_list", "d_probe", "d_disc", "c_fetch", "b_tasks", "h_run"}
\* the calls r awaits were made by fetchJsonWithTimeout, which arms a timer of
\* HUMAN_BELIEF_TIMEOUT_MS; fetchJson arms none
DeadlineArmed(r) == r.pc = "b_tasks"

\* the upstream answers every task in time
BeliefAnswers == {[i \in 0..(NumProbes - 1) |-> EvalsDataRaw]}
BeliefInstants == {0, 8000, 60000}

BeliefNext ==
  \/ \E s \in Slots : BeliefStart(s)
  \/ \E s \in Slots : DetectList(s, ServerLists, FALSE)
  \/ \E s \in Slots : DetectProbe(s, ServerProbes, FALSE)
  \/ \E s \in Slots : DetectDiscover(s, ServerProbes, FALSE)
  \/ \E s \in Slots : BeliefCheck(s)
  \/ \E s \in Slots : BeliefSettled(s, BeliefAnswers)
  \/ \E s \in Slots : BeliefTimeout(s)
  \/ Tick(BeliefInstants)

\* a queued continuation runs and an armed timer fires; nothing makes the
\* upstream answer a request that has no timer
BeliefFairSpec ==
  /\ ServerInit
  /\ [][BeliefNext]_vars
  /\ WF_vars(\E s \in Slots : BeliefCheck(s))
  /\ WF_vars(\E s \in Slots : BeliefTimeout(s))

\* ------------------------------------------------------------------------
\* The upstream client, one call at a time, step by step
\* ------------------------------------------------------------------------
CallStatuses == {200, 404, 500}
CallTexts ==
  {Garbage, TextOf(JNull), TextOf(JOther), TextOf(JEvals(<<>>)),
   TextOf(JEvals(<<OneEval>>)), TextOf(JItems(<<>>))}

\* the call returns (or throws) what the function makes of the exchange;
\* the finally block of fetchJsonWithTimeout clears the timer
CallReturn(raw) ==
  call' = [call EXCEPT
             !.pc = "done",
             !.cleared = (call.fn = "fetchJsonWithTimeout"),
             !.timer = IF raw.kind = "abort" THEN "fired" ELSE @,
             !.result = Some([raw |-> raw,
                              r |-> IF call.fn = "fetchJson" THEN fetchJson(raw)
                                    ELSE fetchJsonWithTimeout(raw)])]

\* fetchJson(url) or fetchJsonWithTimeout(url) is called: the request is sent,
\* and the latter arms its deadline timer first
CallStart(fn) ==
  /\ call.pc \in {"idle", "done"}
  /\ call.made < MaxCalls
  /\ call' = [IdleCall EXCEPT !.fn = fn, !.pc = "await_fetch", !.made = call.made + 1,
                              !.timer = IF fn = "fetchJsonWithTimeout" THEN "armed"
                                        ELSE "none"]
  /\ UNCHANGED <<server, pred>>

\* the response head arrives: safeFetch resolves
CallHeaders ==
  /\ call.pc = "await_fetch"
  /\ \E st \in CallStatuses : call' = [call EXCEPT !.pc = "await_text", !.status = st]
  /\ UNCHANGED <<server, pred>>

\* the transport fails, before the head or while the body streams
CallReject ==
  /\ call.pc \in {"await_fetch", "await_text"}
  /\ CallReturn(Reject)
  /\ UNCHANGED <<server, pred>>

\* the body has arrived in full: res.text() resolves
CallBody ==
  /\ call.pc = "await_text"
  /\ \E text \in CallTexts : CallReturn(Http(call.status, text))
  /\ UNCHANGED <<server, pred>>

\* the deadline timer fires: ctrl.abort() rejects the pending await
CallTimer ==
  /\ call.pc \in {"await_fetch", "await_text"}
  /\ call.timer = "armed" /\ ~call.cleared
  /\ CallReturn(Abort)
  /\ UNCHANGED <<server, pred>>

FetchNext ==
  \/ \E fn \in {"fetchJson", "fetchJsonWithTimeout"} : CallStart(fn)
  \/ CallHeaders
  \/ CallReject
  \/ CallBody
  \/ CallTimer

FetchSpec == ServerInit /\ [][FetchNext]_vars

\* timers fire: the event loop runs the callback of an armed, uncleared timer
FetchFairSpec == FetchSpec /\ WF_vars(CallTimer)

\* ------------------------------------------------------------------------
\* The historical analysis alone, with varied evaluation data
\* ------------------------------------------------------------------------
\* per market, the evals requests all fail, all bring the same score, or bring
\* the highest score for the last model index
HistVariety ==
  {[id \in MARKET_CONFIG_IDS |->
      [i \in Keys(MARKET_CONFIG[id].entryMap) |->
         CASE kind[id] = "fail" -> Reject
           [] kind[id] = "even" -> EvalsDataRaw
           [] OTHER -> IF \A j \in Keys(MARKET_CONFIG[id].entryMap) : j <= i
                       THEN Http(200, TextOf(JEvals(<<Ev(20)>>)))
                       ELSE EvalsDataRaw]] :
     kind \in [MARKET_CONFIG_IDS -> {"fail", "even", "last"}]}

HistSpec ==
  ServerInit /\ [][\E s \in Slots : HistStart(s) \/ HistFinish(s, HistVariety)]_vars

\* ------------------------------------------------------------------------
\* The two gatherings of evaluation series, on chosen upstream answers
\* ------------------------------------------------------------------------
\* the live market whose series are gathered: a configured pair of models, and
\* discovered maps that hold both probed indices, index 1 alone, or 0 and 2;
\* raws[i] is what the evals request of model index i ends with: a transport
\* failure, the abort of the deadline timer, a body that is not JSON, no
\* record, or records
GatherInit ==
  /\ ServerIdle
  /\ \E entryMap \in {MapOfSeq(<<"X", "Y">>)}
                       \cup {[i \in K |-> EntryName(i)] : K \in {{0, 1}, {1}, {0, 2}}} :
       \E raws \in [0..2 -> {Reject, Abort, Http(502, Garbage), EvalsEmptyRaw,
                             Http(200, TextOf(JEvals(<<Ev(10), Ev(20)>>))),
                             Http(200, TextOf(JEvals(<<Ev(5)>>)))}] :
         pred = Some([entryMap |-> entryMap, raws |-> raws, done |-> FALSE,
                      out |-> computeMarketPrediction(EmptyMap, raws),
                      belief |-> <<>>])

\* computeMarketPrediction and the tasks of human-belief run on these answers;
\* only the tasks have a deadline: the request of the engine fails in
\* transport where a task is aborted
Gather ==
  /\ ~IsNull(pred) /\ ~Val(pred).done
  /\ LET p == Val(pred)
         live == UnknownLive("5", UpstreamName("5"), p.entryMap)
     IN pred' = Some([p EXCEPT
                        !.done = TRUE,
                        !.out = computeMarketPrediction(p.entryMap,
                                  [i \in DOMAIN p.raws |->
                                     IF p.raws[i] = Abort THEN Reject ELSE p.raws[i]]),
                        !.belief = Some(HumanBeliefPayload("5", live, p.raws, 0))])
  /\ UNCHANGED <<server, call>>

GatherSpec == GatherInit /\ [][Gather]_vars

\* ------------------------------------------------------------------------
\* The chart endpoint alone, with timeframes and every kind of upstream answer
\* ------------------------------------------------------------------------
\* the ongoing-markets query fails, so the live market is the fallback; the
\* chart request fails in transport, or brings a body that is not JSON, a
\* document of another shape, or a chart
ChartNext ==
  \/ \E s \in Slots : ChartStart(s, ChartQueryIds, {"", "1h"})
  \/ \E s \in Slots : DetectList(s, {Reject}, FALSE)
  \/ \E s \in Slots : ChartCheck(s)
  \/ \E s \in Slots : ChartFetched(s, ChartRaws \cup {Http(200, TextOf(JOther))})
  \/ Tick(Instants)

ChartSpec == ServerInit /\ [][ChartNext]_vars

\* ========================================================================
\* Properties
\* ========================================================================
\* what the upstream has answered, read without the server's code
ListedIds ==
  IF IsNull(upList) THEN {}
  ELSE LET raw == Val(upList) IN
       IF raw.kind = "http" /\ raw.text.syntax = "json" /\ raw.text.doc.t = "items"
       THEN {raw.text.doc.items[i].market_id : i \in 1..Len(raw.text.doc.items)}
       ELSE {}
AnsweredWithRecords(id) ==
  /\ ~IsNull(upEvals[id][0])
  /\ LET raw == Val(upEvals[id][0]) IN
     /\ raw.kind = "http" /\ raw.text.syntax = "json"
     /\ raw.text.doc.t = "evals" /\ raw.text.doc.evals # <<>>
AnsweredWithout(id) == ~IsNull(upEvals[id][0]) /\ ~AnsweredWithRecords(id)

\* request s has just completed a detection cycle under the present upstream state
FreshCycle(s) ==
  /\ req[s].pc = "detected" /\ req[s].dsrc = "fresh"
  /\ req[s].ep = epoch /\ ~IsNull(upList)

\* C1 (first part): a detection cycle never has an index-0 probe in flight for
\* an id that was in the ghost set when the cycle started.
C1_NoProbeOfGhost ==
  \A s \in Slots :
    req[s].pc = "d_probe" => req[s].cands[1].market_id \notin req[s].g0

\* C1 (second part): a cycle that completes under the same upstream state as
\* the cycle completed before it returns the same result.
C1_SameResult ==
  (/\ ~IsNull(lastCycle) /\ ~IsNull(lastCycle')
   /\ Val(lastCycle).ep0 = Val(lastCycle).ep1
   /\ Val(lastCycle').ep0 = Val(lastCycle').ep1
   /\ Val(lastCycle).ep1 = Val(lastCycle').ep0)
  => Val(lastCycle').result = Val(lastCycle).result

\* C1: once a market id is in the ghost set, no detection cycle that starts
\* later probes it, and with the upstream state unchanged the later cycle
\* returns the same result as the cycle before it.
C1_GhostNeverReprobed == [](C1_NoProbeOfGhost) /\ [][C1_SameResult]_vars

\* C1 witness: a cycle that started after "5" was added to the ghost set got
\* a list that holds "5", filtered it out and probes the next candidate; the
\* cycle before it completed under the same upstream state.
C1_Witness ==
  \E s \in Slots :
    /\ req[s].pc = "d_probe" /\ req[s].ep = epoch
    /\ "5" \in req[s].g0 /\ "5" \in ListedIds
    /\ ~IsNull(lastCycle) /\ Val(lastCycle).ep0 = epoch /\ Val(lastCycle).ep1 = epoch

\* no listed market validates: the query failed or listed nothing, or every
\* listed id was a ghost when the cycle started or answered its probe
\* without records
NoneValidates(s) ==
  \A id \in ListedIds : id \in req[s].g0 \/ AnsweredWithout(id)

\* the settled market with the highest display order
LatestSettled ==
  CHOOSE id \in MARKET_CONFIG_IDS :
    \A other \in MARKET_CONFIG_IDS :
      MARKET_CONFIG[other].displayNum <= MARKET_CONFIG[id].displayNum

\* C5: when no candidate validates, detectLiveMarket returns the settled
\* market with the highest display order ("4"), closed and known; every
\* cycle ends with a result.
C5_FallbackWhenNoneValidates ==
  \A s \in Slots :
    /\ req[s].pc = "detected" => ~IsNull(req[s].live)
    /\ (FreshCycle(s) /\ NoneValidates(s)) =>
         /\ LatestSettled = "4"
         /\ Val(req[s].live) =
              [market_id |-> LatestSettled,
               market_name |-> MARKET_CONFIG[LatestSettled].name,
               status |-> "closed",
               entryMap |-> MARKET_CONFIG[LatestSettled].entryMap,
               isKnown |-> TRUE]

\* C5 witness: a cycle fell back after its only candidate failed its probe
C5_Witness ==
  \E s \in Slots :
    /\ FreshCycle(s) /\ NoneValidates(s)
    /\ \E id \in ListedIds : id \notin req[s].g0 /\ AnsweredWithout(id)

\* C6: the ghost set holds its seed and never loses an id.
C6_GhostSetGrows ==
  [](GhostSeed \subseteq GHOST_MARKET_IDS)
    /\ [][GHOST_MARKET_IDS \subseteq GHOST_MARKET_IDS']_vars

\* C6 witness: the ghost set has grown twice
C6_Witness == {"2", "4", "5"} \subseteq GHOST_MARKET_IDS

\* C7: fetchJson never throws; on a transport failure or a body that is not
\* JSON it returns ok = false and json = null, with the raw text kept.
C7_FetchJsonNeverThrows ==
  (call.pc = "done" /\ call.fn = "fetchJson") =>
    LET raw == Val(call.result).raw
        r == Val(call.result).r
    IN /\ ~r.thrown
       /\ (raw.kind # "http" \/ raw.text.syntax # "json") =>
            (~r.ok /\ r.json = JNull /\ r.text = raw.text)

\* C8 (safety): fetchJsonWithTimeout never throws; an abort by the deadline or a
\* transport failure gives ok = false, status = 0, json = null; the timer is
\* cleared on return and is armed while the call is pending.
C8_TimeoutShape ==
  call.fn = "fetchJsonWithTimeout" =>
    /\ call.pc \in {"await_fetch", "await_text"} => call.timer = "armed"
    /\ call.pc = "done" =>
         LET raw == Val(call.result).raw
             r == Val(call.result).r
         IN /\ ~r.thrown
            /\ call.cleared
            /\ raw.kind # "http" => (~r.ok /\ r.status = 0 /\ r.json = JNull)

\* C8: every call of fetchJsonWithTimeout eventually returns a value and never
\* throws; on a fired deadline or a transport failure the value is ok = false,
\* status = 0, json = null, and the timer is cleared on every exit path.
C8_TimeoutAlwaysReturns ==
  /\ [](C8_TimeoutShape)
  /\ \A n \in 1..(MaxCalls + 1) :
       (call.fn = "fetchJsonWithTimeout" /\ call.made = n /\ call.pc # "done")
         ~> (call.made = n /\ call.pc = "done")

\* C8 witness: the deadline fired while the body was still streaming
C8_Witness ==
  /\ call.fn = "fetchJsonWithTimeout" /\ call.pc = "done"
  /\ call.timer = "fired" /\ call.status # 0
  /\ Val(call.result).r.status = 0

\* the averages and beliefs of a finished prediction
PredOut == Val(pred).out
PredTotal == RSum([i \in 1..Len(PredOut.perModel) |-> PredOut.perModel[i].avgAggregate])
PredBeliefSum == RSum([i \in 1..Len(PredOut.beliefs) |-> PredOut.beliefs[i].belief])

\* C10: when the sum of the per-model average scores is greater than 0, the
\* beliefs returned by computeMarketPrediction sum to exactly 100.
C10_BeliefsSumTo100 ==
  (~IsNull(pred) /\ Val(pred).done /\ RGt(PredTotal, RInt(0))) =>
    PredBeliefSum = RInt(100)

\* C10 witness: the averages 15 and 5 gave the beliefs 75 and 25
C10_Witness ==
  /\ ~IsNull(pred) /\ Val(pred).done
  /\ PredOut.beliefs = <<[model |-> "X", belief |-> RInt(75)],
                         [model |-> "Y", belief |-> RInt(25)]>>

\* the steps that serve a stored payload
ChartHitStep(s) ==
  req[s].kind = "chart" /\ req[s].pc = "detected" /\ req'[s].pc = "idle"
BeliefHitStep(s) ==
  req[s].kind = "belief" /\ req[s].pc = "detected" /\ req'[s].pc = "idle"
HistHitStep == started' = started + 1 /\ req' = req
LiveHitStep(s) == req[s].pc = "idle" /\ req'[s].pc = "detected" /\ req'[s].dsrc = "cache"
\* no request starts waiting for the upstream in this step
NoUpstreamRequest ==
  \A t \in Slots :
    req'[t].pc \in {"d_list", "d_probe", "d_disc", "c_fetch", "b_tasks", "h_run"}
      => req'[t] = req[t]
ServedFrom(slot) ==
  /\ ~IsNull(slot) /\ ~IsNull(lastResp')
  /\ Val(lastResp').src = "cache" /\ Val(lastResp').body = Val(slot)
  /\ UNCHANGED <<caches, GHOST_MARKET_IDS>>
  /\ NoUpstreamRequest

\* C2: the market_id of a chart or human-belief payload that is served equals
\* the market id the serving request resolved, whatever the slot was bound to
\* and whatever its age.
C2_ServedMarketIsResolved ==
  (~IsNull(lastResp) /\ Val(lastResp).kind \in {"chart", "belief"}
     /\ Val(lastResp).status = 200)
    => Val(lastResp).body.market_id = Val(lastResp).marketId

\* C2 witness: a human-belief payload was served for one market; a later
\* request resolved another market, found the slot bound to the first one with
\* an age below the TTL, dropped it and is fetching instead of serving it.
C2_Witness ==
  \E s \in Slots :
    /\ req[s].kind = "belief" /\ req[s].pc = "b_tasks" /\ req[s].dropped
    /\ IsNull(humanBeliefCache)
    /\ ~IsNull(lastResp) /\ Val(lastResp).kind = "belief"
    /\ Val(lastResp).status = 200
    /\ Val(lastResp).marketId # req[s].marketId

\* this step sends a 200 chart response and the response before it was a 200
\* chart response for the same market id
SecondChartAnswer ==
  /\ \E s \in Slots : req[s].kind = "chart" /\ req'[s].pc = "idle"
  /\ ~IsNull(lastResp) /\ ~IsNull(lastResp')
  /\ Val(lastResp).kind = "chart" /\ Val(lastResp).status = 200
  /\ Val(lastResp').status = 200
  /\ Val(lastResp').marketId = Val(lastResp).marketId
ChartFetchesOf(resp) == IF resp.src = "cache" THEN 0 ELSE 1

\* C3: two calls to the chart endpoint for the same market id made within the
\* 5 s TTL window return identical payloads and together trigger at most one
\* upstream chart fetch.  Stated for two successful calls that are both made
\* and answered before the clock reaches 5 s.
C3_TwoCallsOneFetch ==
  [][(SecondChartAnswer /\ now' < CACHE_DURATION_MS) =>
       /\ Val(lastResp').body = Val(lastResp).body
       /\ ChartFetchesOf(Val(lastResp)) + ChartFetchesOf(Val(lastResp')) <= 1]_vars

\* C4: each of the four slots is served only while the current time minus the
\* slot's timestamp is strictly below the slot's TTL; the hit returns the
\* stored payload, starts no upstream request and changes no slot and not the
\* ghost set.
C4_HitWithinTtl ==
  [][/\ \A s \in Slots :
          /\ ChartHitStep(s) =>
               /\ now - delphiChartCacheTime < CACHE_DURATION_MS
               /\ ServedFrom(delphiChartCache)
          /\ BeliefHitStep(s) =>
               /\ now - humanBeliefCacheTime < HUMAN_BELIEF_CACHE_MS
               /\ ServedFrom(humanBeliefCache)
          /\ LiveHitStep(s) =>
               /\ ~IsNull(liveMarketCache)
               /\ now - liveMarketCacheTime < LIVE_MARKET_CACHE_MS
               /\ req'[s].live = liveMarketCache
               /\ UNCHANGED <<caches, GHOST_MARKET_IDS>>
               /\ NoUpstreamRequest
     /\ HistHitStep =>
          /\ now - historicalCacheTime < HISTORICAL_CACHE_MS
          /\ ServedFrom(historicalCache)]_vars

\* C4 witness: a chart payload stored at 5000 was served at 8000
C4_Witness ==
  /\ ~IsNull(lastResp) /\ ~IsNull(delphiChartCache)
  /\ Val(lastResp).kind = "chart" /\ Val(lastResp).src = "cache"
  /\ Val(lastResp).body = Val(delphiChartCache)
  /\ delphiChartCacheTime = 5000 /\ now = 8000
  /\ \A s \in Slots : req[s].pc = "idle"

\* C9: every upstream call a /api/human-belief request waits on is bounded by
\* the 9 s deadline, and every such request is eventually answered, even when
\* an upstream endpoint never answers.
C9_BeliefAlwaysResponds ==
  /\ [](\A s \in Slots :
         (req[s].kind = "belief" /\ WaitsOnUpstream(req[s])) => DeadlineArmed(req[s]))
  /\ \A s \in Slots : (req[s].kind = "belief") ~> (req[s].kind = "idle")

\* ------------------------------------------------------------------------
\* The prediction engine: ranges, the empty outcome, the winner, the formula
\* ------------------------------------------------------------------------
PredDone == ~IsNull(pred) /\ Val(pred).done
\* the name the engine files model index i under
PredName(i) ==
  IF Val(pred).entryMap[i] # "" THEN Val(pred).entryMap[i] ELSE EntryName(i)
\* the first index of the entry map that carries the name
FirstIndex(name) ==
  CHOOSE i \in Keys(Val(pred).entryMap) :
    /\ PredName(i) = name
    /\ \A j \in Keys(Val(pred).entryMap) : PredName(j) = name => i <= j
\* the records the request of model index i delivered, and their mean with a
\* record that has no finite aggregate counted as 0
SeriesOf(i) == EvalsOf(EvalTask(i, Val(pred).raws[i]).json)
RecordScore(e) == IF e.aggregate = <<>> THEN 0 ELSE e.aggregate[1]
SeriesSum(i) == SumInts([k \in 1..Len(SeriesOf(i)) |-> RecordScore(SeriesOf(i)[k])])
SeriesMean(i) ==
  IF Len(SeriesOf(i)) = 0 THEN RInt(0) ELSE Rat(SeriesSum(i), Len(SeriesOf(i)))
SameRat(a, b) == ~RGt(a, b) /\ ~RGt(b, a)

\* C11: every belief value the engine returns lies between 0 and 100, also
\* when aggregates are negative
C11_BeliefsWithinRange ==
  PredDone =>
    \A k \in 1..Len(PredOut.beliefs) :
      /\ ~RGt(RInt(0), PredOut.beliefs[k].belief)
      /\ ~RGt(PredOut.beliefs[k].belief, RInt(100))

\* C12: when the mean of every model is 0 (records all scored 0, no records,
\* failed requests, or an empty entry map) the engine returns no beliefs and
\* no predicted winner
C12_NoBeliefsWhenAllZero ==
  (PredDone /\ \A m \in 1..Len(PredOut.perModel) :
                 SeriesSum(PredOut.perModel[m].modelIdx) = 0) =>
    /\ PredOut.beliefs = <<>>
    /\ IsNull(PredOut.predictedWinner)

C12_Witness ==
  /\ PredDone
  /\ Val(pred).entryMap = MapOfSeq(<<"X", "Y">>)
  /\ Val(pred).raws[0] = Http(200, TextOf(JEvals(<<EvNaN, Ev(0)>>)))
  /\ Val(pred).raws[1] = Reject
  /\ Len(PredOut.perModel) = 2
  /\ PredOut.beliefs = <<>>
  /\ IsNull(PredOut.predictedWinner)

\* C13: when beliefs are returned, the predicted winner has the highest
\* belief, among the models with that belief it is the one met first in
\* index order, and topBelief is that highest belief
C13_WinnerIsFirstMaximum ==
  (PredDone /\ PredOut.beliefs # <<>>) =>
    \E k \in 1..Len(PredOut.beliefs) :
      /\ PredOut.predictedWinner = Some(PredOut.beliefs[k].model)
      /\ SameRat(PredOut.topBelief, PredOut.beliefs[k].belief)
      /\ \A j \in 1..Len(PredOut.beliefs) :
           /\ ~RGt(PredOut.beliefs[j].belief, PredOut.beliefs[k].belief)
           /\ SameRat(PredOut.beliefs[j].belief, PredOut.beliefs[k].belief) =>
                FirstIndex(PredOut.beliefs[k].model) <= FirstIndex(PredOut.beliefs[j].model)

C13_Witness ==
  /\ PredDone
  /\ PredOut.beliefs = <<[model |-> "X", belief |-> RInt(50)],
                         [model |-> "Y", belief |-> RInt(50)]>>
  /\ PredOut.predictedWinner = Some("X")
  /\ PredOut.topBelief = RInt(50)

\* the sum of the means of the models the engine reports
MeanTotal == RSum([m \in 1..Len(PredOut.perModel) |->
                     SeriesMean(PredOut.perModel[m].modelIdx)])

\* C14: the average of a model is the mean of its records' aggregates with a
\* missing or non-finite aggregate counted as 0, and with a positive total
\* its belief is average / total * 100
C14_BeliefFormula ==
  PredDone =>
    /\ \A m \in 1..Len(PredOut.perModel) :
         SameRat(PredOut.perModel[m].avgAggregate,
                 SeriesMean(PredOut.perModel[m].modelIdx))
    /\ RGt(MeanTotal, RInt(0)) =>
         /\ Len(PredOut.beliefs) = Len(PredOut.perModel)
         /\ \A m \in 1..Len(PredOut.perModel) :
              /\ PredOut.beliefs[m].model = PredOut.perModel[m].model
              /\ SameRat(RMul(PredOut.beliefs[m].belief, MeanTotal),
                         RMul(SeriesMean(PredOut.perModel[m].modelIdx), RInt(100)))

C14_Witness ==
  /\ PredDone
  /\ Val(pred).entryMap = MapOfSeq(<<"X", "Y">>)
  /\ Val(pred).raws[0] = Http(200, TextOf(JEvals(<<Ev(10), Ev(20)>>)))
  /\ Val(pred).raws[1] = Http(200, TextOf(JEvals(<<EvNaN, Ev(10)>>)))
  /\ PredOut.beliefs = <<[model |-> "X", belief |-> RInt(75)],
                         [model |-> "Y", belief |-> RInt(25)]>>

\* ------------------------------------------------------------------------
\* The winner resolver: precedence of the tiers
\* ------------------------------------------------------------------------
WinnerDone == ~IsNull(pred) /\ Val(pred).done
WinnerOut == Val(pred).out
\* the model the latest data point of the delivered chart prices highest
ChartFavours(name) ==
  /\ Val(pred).chartRaw.ok
  /\ ~IsNull(pickWinnerFromChart(Val(pred).chartRaw.text.doc, Val(pred).entryMap))
  /\ pickWinnerFromChart(Val(pred).chartRaw.text.doc, Val(pred).entryMap) = Some(name)

NamedByMarket(market, entryMap) ==
  IF ~IsNull(market.winner) THEN market.winner
  ELSE IF ~IsNull(market.winning_index) /\ Val(market.winning_index) \in Keys(entryMap)
       THEN Some(entryMap[Val(market.winning_index)])
       ELSE IF ~IsNull(market.resolution.index)
                 /\ Val(market.resolution.index) \in Keys(entryMap)
            THEN Some(entryMap[Val(market.resolution.index)])
            ELSE Null

\* C16: without a confirmed winner, a winner field of the upstream market
\* object decides the result, ahead of the chart, and the provenance is the
\* structured-field tier
C16_StructuredFieldBeforeChart ==
  (/\ WinnerDone /\ Val(pred).confirmedWinner = ""
   /\ ~IsNull(NamedByMarket(Val(pred).market, Val(pred).entryMap))) =>
    /\ WinnerOut.actualWinner = Val(NamedByMarket(Val(pred).market, Val(pred).entryMap))
    /\ WinnerOut.source \notin {"confirmed", "chart_top_price", "unavailable", ""}

\* ------------------------------------------------------------------------
\* The historical analysis: the correct flag and its count
\* ------------------------------------------------------------------------
\* the payloads of the historical analysis that exist: the stored one and the
\* one sent last
HistPayloads ==
  (IF IsNull(historicalCache) THEN {} ELSE {Val(historicalCache)})
    \cup (IF ~IsNull(lastResp) /\ Val(lastResp).kind = "hist"
          THEN {Val(lastResp).body} ELSE {})
Analysed(payload) == {k \in 1..Len(payload.markets) : ~payload.markets[k].error}
CorrectOnes(payload) == {k \in Analysed(payload) : payload.markets[k].correct}

\* C17: a market is flagged correct exactly when a winner was predicted, the
\* actual winner is not "TBD" and the two names are equal once normalised;
\* correctPredictions counts these markets and is at most totalMarkets
C17_CorrectFlag ==
  \A payload \in HistPayloads :
    /\ \A k \in Analysed(payload) :
         LET r == payload.markets[k] IN
         r.correct <=> /\ r.predictedWinner # "No prediction"
                       /\ r.actualWinner # "TBD"
                       /\ normalizeName(r.predictedWinner) = normalizeName(r.actualWinner)
    /\ payload.correctPredictions = Cardinality(CorrectOnes(payload))
    /\ payload.correctPredictions <= payload.totalMarkets

\* a prediction that is right (market 4, the last model), one that is wrong
\* (market 0, the last model) and a market without prediction, in one payload
C17_Witness ==
  \E payload \in HistPayloads :
    /\ payload.markets[4].predictedWinner = "grok-4.1-fast-reasoning"
    /\ payload.markets[4].correct
    /\ payload.markets[1].predictedWinner = "openai/gpt-oss-20b"
    /\ ~payload.markets[1].correct
    /\ payload.markets[2].predictedWinner = "No prediction"
    /\ ~payload.markets[2].correct
    /\ payload.correctPredictions = 1 /\ payload.totalMarkets = 4

\* ------------------------------------------------------------------------
\* Response headers
\* ------------------------------------------------------------------------
\* C18: every successful response of the chart, human-belief,
\* historical-analysis and live-market endpoints carries the header
\* Cache-Control: no-cache, no-store, must-revalidate, whether the payload
\* was computed for the response or taken from a cache slot
C18_SuccessCarriesNoCache ==
  (~IsNull(lastResp) /\ Val(lastResp).status = 200
     /\ Val(lastResp).kind \in {"chart", "belief", "hist", "live"}) =>
    Val(lastResp).cacheControl = NoCache

\* ------------------------------------------------------------------------
\* Detection: which candidate becomes the ongoing market
\* ------------------------------------------------------------------------
\* the candidates a cycle still has to probe are ordered newest first
NewestFirst(cands) ==
  \A i \in 1..Len(cands) : \A j \in 1..Len(cands) :
    i < j => cands[i].created_ts > cands[j].created_ts

\* C19: an "ongoing" result names the newest listed market that was no ghost
\* when the cycle started and answered its index-0 probe with records; the
\* candidates are probed newest first, and every newer listed market is in
\* the ghost set, having answered its probe without records unless it was a
\* ghost already
C19_NewestValidatedCandidate ==
  \A s \in Slots :
    /\ NewestFirst(req[s].cands)
    /\ (FreshCycle(s) /\ Val(req[s].live).status = "ongoing") =>
         LET id == Val(req[s].live).market_id IN
         /\ id \in ListedIds
         /\ id \notin req[s].g0
         /\ AnsweredWithRecords(id)
         /\ \A other \in ListedIds :
              CreatedTs(other) > CreatedTs(id) =>
                /\ other \in GHOST_MARKET_IDS
                /\ other \notin req[s].g0 => AnsweredWithout(other)

\* C19 witness: "5", newer than "4" and no ghost at the start, was probed,
\* had no record and became a ghost; "4" is the ongoing market
C19_Witness ==
  \E s \in Slots :
    /\ FreshCycle(s) /\ Val(req[s].live).status = "ongoing"
    /\ Val(req[s].live).market_id = "4"
    /\ "5" \in ListedIds /\ "5" \notin req[s].g0
    /\ AnsweredWithout("5") /\ "5" \in GHOST_MARKET_IDS

\* ------------------------------------------------------------------------
\* Detection: the shape of a result
\* ------------------------------------------------------------------------
\* the results of detectLiveMarket that exist: the cached one and those the
\* requests in flight hold
LiveResults ==
  (IF IsNull(liveMarketCache) THEN {} ELSE {Val(liveMarketCache)})
    \cup {Val(req[s].live) : s \in {t \in Slots : ~IsNull(req[t].live)}}

\* C20: in every result, isKnown is true exactly when market_id is a key of
\* MARKET_CONFIG, and then market_name and entryMap are the config's; status
\* is "ongoing" or "closed", and "closed" only in the fallback result
C20_ResultShape ==
  /\ \A r \in LiveResults :
       /\ r.isKnown <=> r.market_id \in MARKET_CONFIG_IDS
       /\ r.isKnown => /\ r.market_name = MARKET_CONFIG[r.market_id].name
                       /\ r.entryMap = MARKET_CONFIG[r.market_id].entryMap
       /\ r.status \in {"ongoing", "closed"}
       /\ r.status = "closed" => r.market_id = LatestSettled
  /\ \A s \in Slots :
       (FreshCycle(s) /\ Val(req[s].live).status = "closed") => NoneValidates(s)

\* C20 witness: a cycle has just returned a discovered market, not in
\* MARKET_CONFIG, with the entry map it discovered, and the result is cached
C20_Witness ==
  \E s \in Slots :
    /\ FreshCycle(s)
    /\ Val(req[s].live).market_id = "5" /\ ~Val(req[s].live).isKnown
    /\ Val(req[s].live).status = "ongoing"
    /\ Val(req[s].live).entryMap # EmptyMap
    /\ liveMarketCache = req[s].live

\* ------------------------------------------------------------------------
\* Detection: the discovered entry map
\* ------------------------------------------------------------------------
\* the upstream answered the evals request of model index i of market id with
\* a success status and at least one record
SucceededWithRecords(id, i) ==
  /\ i < MaxModels
  /\ ~IsNull(upEvals[id][i])
  /\ LET raw == Val(upEvals[id][i]) IN
     /\ raw.kind = "http" /\ raw.status >= 200 /\ raw.status < 300
     /\ raw.text.syntax = "json"
     /\ raw.text.doc.t = "evals" /\ raw.text.doc.evals # <<>>

\* C21: the entry map discovered for an accepted market that is not in
\* MARKET_CONFIG holds exactly the indices in 0..9 whose probe succeeded with
\* at least one record, each named "Entry #N"; a probe that fails or throws
\* removes its own index only, and the cycle still returns the market
C21_DiscoveredEntryMap ==
  \A s \in Slots :
    /\ (FreshCycle(s) /\ ~Val(req[s].live).isKnown) =>
         LET id == Val(req[s].live).market_id
             entryMap == Val(req[s].live).entryMap
         IN /\ Val(req[s].live).status = "ongoing"
            /\ DOMAIN entryMap = {i \in 0..9 : SucceededWithRecords(id, i)}
            /\ \A i \in DOMAIN entryMap :
                 entryMap[i] = (CASE i = 0 -> "Entry #0" [] i = 1 -> "Entry #1"
                                  [] OTHER -> "Entry #2")
    /\ (FreshCycle(s) /\ Val(req[s].live).isKnown) =>
         \A id \in ListedIds \ MARKET_CONFIG_IDS :
           id \in req[s].g0 \/ AnsweredWithout(id)

\* C21 witness: the probe of index 1 of market "5" threw and the discovered
\* map holds index 0 alone
C21_Witness ==
  \E s \in Slots :
    /\ FreshCycle(s) /\ Val(req[s].live).market_id = "5"
    /\ upEvals["5"][1] = Some(Reject)
    /\ DOMAIN Val(req[s].live).entryMap = {0}

\* ------------------------------------------------------------------------
\* Gathering the series of N models: one failure stays with its index
\* ------------------------------------------------------------------------
\* what the answer to one evals request delivers: its parsed document, null
\* when there is none, and the records of that document
DeliveredDoc(raw) ==
  IF raw.kind = "http" /\ raw.text.syntax = "json" THEN raw.text.doc ELSE [t |-> "null"]
DeliveredScores(raw) ==
  IF DeliveredDoc(raw).t = "evals"
  THEN [k \in 1..Len(DeliveredDoc(raw).evals) |-> RecordScore(DeliveredDoc(raw).evals[k])]
  ELSE <<>>
GatherN == Cardinality(DOMAIN Val(pred).entryMap)

\* C22 (engine): the result has one entry per model index of the entry map,
\* and the entry of an index holds what the request of that index delivered,
\* an empty series with average 0 when it failed or delivered nothing
C22_EngineIsolates ==
  /\ Len(PredOut.perModel) = GatherN
  /\ \A i \in DOMAIN Val(pred).entryMap :
       \E m \in 1..Len(PredOut.perModel) :
         /\ PredOut.perModel[m].modelIdx = i
         /\ PredOut.perModel[m].perEvalAggregates = DeliveredScores(Val(pred).raws[i])
         /\ DeliveredScores(Val(pred).raws[i]) = <<>> =>
              PredOut.perModel[m].avgAggregate = RInt(0)

\* C22 (human-belief): raw has one place per requested model index, and the
\* place of an index holds the document its task delivered, null when the
\* task failed or timed out
C22_BeliefIsolates ==
  LET payload == Val(Val(pred).belief) IN
  /\ Len(payload.raw) = GatherN
  /\ Len(payload.model_names) = GatherN
  /\ \A i \in 0..(GatherN - 1) : payload.raw[i + 1] = DeliveredDoc(Val(pred).raws[i])

\* C22: when the series of the N models of a market are gathered, a failure,
\* timeout or empty answer for one index neither fails the operation nor
\* changes what the other indices brought, and the result covers N indices
C22_PartialFailureIsolated ==
  (~IsNull(pred) /\ Val(pred).done) => (C22_EngineIsolates /\ C22_BeliefIsolates)

\* C22 witness: index 0 timed out (a transport failure for the engine) and
\* index 1 brought its records to both operations
C22_Witness ==
  /\ ~IsNull(pred) /\ Val(pred).done
  /\ Val(pred).entryMap = MapOfSeq(<<"X", "Y">>)
  /\ Val(pred).raws[0] = Abort
  /\ Val(pred).raws[1] = Http(200, TextOf(JEvals(<<Ev(10), Ev(20)>>)))
  /\ Val(Val(pred).belief).raw[1] = JNull
  /\ Val(Val(pred).belief).raw[2] = JEvals(<<Ev(10), Ev(20)>>)
  /\ PredOut.predictedWinner = Some("Y")

\* ------------------------------------------------------------------------
\* The winner resolver without a confirmed winner
\* ------------------------------------------------------------------------
\* the entries of the last data point of the chart the request delivered, when
\* the request succeeded with a chart document; none otherwise
LastEntries ==
  LET raw == Val(pred).chartRaw IN
  IF raw.kind = "http" /\ raw.ok /\ raw.text.syntax = "json"
       /\ raw.text.doc.t = "chart" /\ raw.text.doc.data_points # <<>>
  THEN raw.text.doc.data_points[Len(raw.text.doc.data_points)].entries
  ELSE <<>>
\* the places of the entries with a finite price, and the first place with the
\* highest one
Priced == {k \in 1..Len(LastEntries) : LastEntries[k].price # <<>>}
TopPlace ==
  CHOOSE k \in Priced :
    /\ \A j \in Priced : LastEntries[j].price[1] <= LastEntries[k].price[1]
    /\ \A j \in Priced : LastEntries[j].price[1] = LastEntries[k].price[1] => k <= j
TopNamed ==
  /\ Priced # {}
  /\ LastEntries[TopPlace].entry_idx \in DOMAIN Val(pred).entryMap
  /\ Val(pred).entryMap[LastEntries[TopPlace].entry_idx] # ""

\* C23: without a confirmed winner the resolver returns, with source
\* "chart_top_price", the entry-map name of the first entry with the highest
\* finite price in the last data point; in every other case it returns "TBD"
\* with source "unavailable"; it never throws
C23_ChartTopPriceOrTbd ==
  (WinnerDone /\ Val(pred).confirmedWinner = "") =>
    /\ ~WinnerOut.thrown
    /\ IF TopNamed
       THEN /\ WinnerOut.source = "chart_top_price"
            /\ WinnerOut.actualWinner
                 = Val(pred).entryMap[LastEntries[TopPlace].entry_idx]
       ELSE /\ WinnerOut.source = "unavailable"
            /\ WinnerOut.actualWinner = "TBD"

\* ------------------------------------------------------------------------
\* Overlapping requests and the cache slots
\* ------------------------------------------------------------------------
\* this step stores a payload in a slot that holds a payload younger than the
\* TTL: the writer missed the slot before that payload was stored, so the
\* two requests overlapped
StoresWithinWindow(slot, time, ttl) ==
  /\ ~IsNull(slot) /\ now - time < ttl
  /\ ~IsNull(slot') /\ slot' # slot
\* two payloads with the same content, the time stamp of the response apart
SameContent(a, b) == [a EXCEPT !.fetched_at = 0] = [b EXCEPT !.fetched_at = 0]

C24_WritesAgree ==
  /\ StoresWithinWindow(liveMarketCache, liveMarketCacheTime, LIVE_MARKET_CACHE_MS) =>
       Val(liveMarketCache') = Val(liveMarketCache)
  /\ StoresWithinWindow(delphiChartCache, delphiChartCacheTime, CACHE_DURATION_MS) =>
       SameContent(Val(delphiChartCache'), Val(delphiChartCache))
  /\ StoresWithinWindow(humanBeliefCache, humanBeliefCacheTime, HUMAN_BELIEF_CACHE_MS) =>
       SameContent(Val(humanBeliefCache'), Val(humanBeliefCache))

\* C24: overlapping requests that missed the same slot do not store different
\* results in it: every payload stored in a slot within the TTL window of the
\* payload it replaces has the same content
C24_OverlappingWritesEqual == [][C24_WritesAgree]_vars

\* ------------------------------------------------------------------------
\* The chart endpoint: what is stored and what is answered
\* ------------------------------------------------------------------------
\* the chart request of slot s is answered in this step
ChartAnswered(s) ==
  /\ req[s].kind = "chart" /\ req[s].pc \in {"detected", "c_fetch"}
  /\ req'[s].pc = "idle"

\* an error response leaves the slot as it is; a payload that is stored is
\* the one answered, for the market id the request asked for
C25_StoreStep ==
  \A s \in Slots :
    (ChartAnswered(s) /\ req[s].pc = "c_fetch") =>
      IF Val(lastResp').status = 200
      THEN /\ delphiChartCache' = Some(Val(lastResp').body)
           /\ Val(delphiChartCache').market_id
                = (IF req[s].qid # "" THEN req[s].qid ELSE Val(req[s].live).market_id)
      ELSE /\ Val(lastResp').status \in {500, 502}
           /\ UNCHANGED <<delphiChartCache, delphiChartCacheTime>>

\* the data points of the chart documents the upstream serves
UpstreamDataPoints ==
  {raw.text.doc.data_points :
     raw \in {x \in ChartRaws : x.kind = "http" /\ x.text.syntax = "json"
                                  /\ x.text.doc.t = "chart"}}

\* a stored payload holds the data points of a parsed upstream chart
C25_StoredIsChart ==
  ~IsNull(delphiChartCache) =>
    /\ Val(delphiChartCache).market_chart # <<>>
    /\ Val(delphiChartCache).market_chart[1].data_points \in UpstreamDataPoints

\* C25: a chart request that ends in an error response never writes the chart
\* slot: a non-empty slot always holds a payload built from a parsed upstream
\* chart with data_points, under the market id requested when it was built
C25_ErrorsNeverStored == [](C25_StoredIsChart) /\ [][C25_StoreStep]_vars

\* C25 witness: a payload is stored and a later chart request has just been
\* answered with an error
C25_Witness ==
  /\ ~IsNull(delphiChartCache)
  /\ ~IsNull(lastResp) /\ Val(lastResp).kind = "chart" /\ Val(lastResp).status = 502
  /\ Val(lastResp).body = [error |-> "unexpected_upstream_shape"]

C26_AnswerStep ==
  \A s \in Slots :
    (ChartAnswered(s) /\ Val(lastResp').status = 200) =>
      Val(lastResp').body.timeframe = req[s].timeframe

\* C26: the timeframe field of every successful chart response is the
\* timeframe that call asked for ("auto" when it gave none)
C26_TimeframeAsRequested == [][C26_AnswerStep]_vars

\* ------------------------------------------------------------------------
\* Detection: results and the ghost set
\* ------------------------------------------------------------------------
\* C27: whenever detectLiveMarket returns a result with status "ongoing",
\* computed by the call or taken from the slot, its market id is not in the
\* ghost set at that moment
C27_OngoingIsNoGhost ==
  \A s \in Slots :
    (req[s].pc = "detected" /\ Val(req[s].live).status = "ongoing") =>
      Val(req[s].live).market_id \notin GHOST_MARKET_IDS

\* an index-0 probe that completed with a success status and a document
\* holding zero evaluation records
ProbeFoundNoRecords(answer) ==
  /\ answer # <<>>
  /\ answer[1].kind = "http" /\ answer[1].status >= 200 /\ answer[1].status < 300
  /\ answer[1].text.syntax = "json"
  /\ answer[1].text.doc.t = "evals" /\ answer[1].text.doc.evals = <<>>

\* a step that adds an id to the ghost set follows such a probe of that id
C28_GhostAddStep ==
  \A id \in GHOST_MARKET_IDS' \ GHOST_MARKET_IDS : ProbeFoundNoRecords(upEvals'[id][0])

\* C28: every id in the ghost set is the seed "2" or an id whose index-0 probe
\* completed successfully with zero records; a probe that failed in transport
\* or brought a malformed body adds no id
C28_GhostsHadEmptyProbe == [][C28_GhostAddStep]_vars

\* ------------------------------------------------------------------------
\* human-belief: the indices asked for and the entry map
\* ------------------------------------------------------------------------
\* the keys of the entry map in ascending order
GatherKeys == KeySeq(DOMAIN Val(pred).entryMap)

\* C29: human-belief asks for the evals of exactly the model indices that are
\* keys of the entry map of the live market, and model_names[i] and raw[i]
\* belong to the model index the entry map gives that name to
C29_BeliefFollowsEntryMap ==
  (~IsNull(pred) /\ Val(pred).done) =>
    LET payload == Val(Val(pred).belief) IN
    /\ Len(payload.model_names) = Len(GatherKeys)
    /\ Len(payload.raw) = Len(GatherKeys)
    /\ \A k \in 1..Len(GatherKeys) :
         /\ payload.model_names[k] = Val(pred).entryMap[GatherKeys[k]]
         /\ payload.raw[k] = DeliveredDoc(Val(pred).raws[GatherKeys[k]])

====
